---- MODULE Spec2Model ----
(***************************************************************************)
(* Sea Turtle Quest: the session state machine, the economy, the temple    *)
(* and the game clock of both variants of the game.                        *)
(*   rich   = src/unnamed/part_000 (teams, pause, 3-question zones)        *)
(*   simple = src/src/App.tsx      (one player per colour, no pause)       *)
(* Time is counted in timer periods: one unit is the 1000 ms of the        *)
(* GameTimer interval, so setTimeout(.., 4000) is a delay of 4.            *)
(*                                                                         *)
(* Specifications, all built from the same actions:                        *)
(*   Spec       every handler and callback, from construction              *)
(*   SpecClock  joins, navigation, pause and the timer, from construction  *)
(*   SpecTemple the temple, joins, navigation, pause and the timer, from   *)
(*              the state in which two players are ready for the temple    *)
(*   SpecSetup  the way from construction to that state                    *)
(*   SpecRank   the leaderboard's sort, from the states in which up to     *)
(*              MaxRanked players with drawn standings are on the board    *)
(*   SpecReward one more answer or draw in any zone, with any draw value   *)
(*              and any card, from the state after a first draw            *)
(*   SpecJoin   joins of several players with the colours they take, from  *)
(*              construction                                               *)
(*   SpecApi    the provider's functions, called with known and unknown    *)
(*              player ids                                                 *)
(*   SpecZone   the zones, from the state in which one player with several *)
(*              action chances is on the map                               *)
(*   SpecExhaust the reef alone, from the same state with one action       *)
(*              chance more than the reef has questions                    *)
(***************************************************************************)
EXTENDS Integers, Sequences, FiniteSets, TLC

VARIABLES
  variant,         \* which of the two source files runs
  limits,          \* the session's time limit and the bounds of the run
  now,             \* Date.now()
  currentPage, players, currentPlayer, gameWinner, winnerTime,
  gameStartTime, gameMode, isPaused, pauseStartTime,   \* GameState
  isJoining, selectedColor,   \* SetupPage local state
  mapGameEnded,    \* MapPage: gameEnded as computed by its last render
  timerDue, hasWarned, totalPauseTime,                 \* GameTimer local state
  zTaskType, zQuestion, zSelected, zShowResult,        \* ZonePage local state
  zCardReward,     \* ZonePage: cardReward, as the id of the card
  zRandom,         \* Math.random() * totalWeight of the draw that set cardReward
  tPuzzleIndex, tCorrect, tShowResult, tComplete,      \* TemplePage local state
  tStreak,         \* correct temple answers in a row since the page was entered
  tFailed,         \* players who have submitted a wrong temple answer
  timeouts,        \* pending setTimeout callbacks
  warnCount, timeupCount,   \* playSound('warning'/'timeup') calls of GameTimer
                            \* while the game is playing
  remAtPause,      \* countdown of the playing game when the running pause began
  sortedPlayers    \* Leaderboard: the list of its last render (SpecRank only)

gameVars  == <<currentPage, players, currentPlayer, gameWinner, winnerTime,
               gameStartTime, gameMode, isPaused, pauseStartTime>>
timerVars == <<timerDue, hasWarned, totalPauseTime>>
zoneVars  == <<zTaskType, zQuestion, zSelected, zShowResult, zCardReward,
               zRandom>>
templeVars == <<tPuzzleIndex, tCorrect, tShowResult, tComplete, tStreak>>
soundVars == <<warnCount, timeupCount>>
vars == <<variant, limits, sortedPlayers, tFailed, now, gameVars, isJoining,
          selectedColor,
          mapGameEnded, timerVars, zoneVars, templeVars, timeouts, soundVars,
          remAtPause>>

----------------------------------------------------------------------------
(* Bounds of the model *)

MaxPlayers == 2      \* players that join in one session (one more in SpecTemple)
MaxTime == 5         \* the clock of a one-player session stops advancing here
ShortTime == 1       \* ... and here in a session of MaxPlayers players
TimeLimit == 2       \* timeLimit*60*1000 ms, scaled down to timer periods
WarnAt == 1          \* the 300000 ms warning threshold, scaled likewise
MaxOps == 2          \* answers + draws + restores in one session (SpecZone: ZoneMaxOps)
MaxActionChances == 1   \* GAME_SETTINGS.maxActionChances (5), scaled down
                        \* (SpecZone: ZoneChances)
ClockMaxTime == 6    \* horizon of the sessions of SpecClock
TempleMaxTime == 12  \* horizon of the sessions of SpecTemple
TempleTimeLimit == 10   \* their time limit: long enough for two gauntlets
TempleCoins == 4     \* temple thresholds, scaled down from 40 / 10 ...
TempleShells == 3    \* ... and 15 / 3 so that a bounded run reaches the temple
ZoneMaxOps == 3      \* answers + draws + restores in a session of SpecZone
ZoneChances == 3     \* maxActionChances in those sessions: a whole question bank
ZoneMaxTime == 5     \* their horizon: an answer's return to the map comes due
ZoneTimeLimit == 9   \* their time limit: the countdown does not run out
MaxRanked == 3       \* players on the leaderboard in a session of SpecRank
MaxRankTime == 2     \* their winTime and lastActive stamps are 1..MaxRankTime
MaxRankCoins == 1    \* their coins, which make their totalScore
DrawRes == 1         \* cells of the draw space per unit of weight
RewardOps == 2       \* answers and draws of a session of SpecReward, the first included
ApiMaxLen == 2       \* entries of a log or a collection in a session of SpecApi
ApiMaxIds == 3       \* player ids handed to the provider in a session of SpecApi
ExhaustChances == 4  \* maxActionChances where a bank is used up
ExhaustOps == 4      \* answers in a session of SpecExhaust
ExhaustMaxTime == 5  \* horizon of SpecExhaust

JoinMaxPlayers == 4  \* players that join in a session of SpecJoin
JoinMaxTime == 2     \* the clock of a session of SpecJoin stops advancing here

(* Program constants *)

Null == -100                 \* null of a nullable number
BoardSize == 8               \* .slice(0, 8)
NoPlayer == 0                \* null or '' in currentPlayer / gameWinner
TickPeriod == 1              \* setInterval(.., 1000)
JoinDelay == 1               \* setTimeout(.., 1000)
ZoneReturnDelay == 4         \* setTimeout(.., 4000)
TempleNextDelay == 2         \* setTimeout(.., 2000)
TempleResetDelay == 3        \* setTimeout(.., 3000)
RestoreAmount == 3
NumTemplePuzzles == 3        \* TEMPLE_PUZZLES.length

Max(a, b) == IF a >= b THEN a ELSE b
(* a minimum that is its first argument *)
FirstOf(a, b) == a
Min(a, b) == IF a <= b THEN a ELSE b
Includes(s, x) == \E i \in 1..Len(s) : s[i] = x

Variants == {"rich", "simple"}

(* PLAYER_COLORS of the two files, the colour SetupPage starts with, and the
   number of players a colour takes: 3 in a team of the rich variant, 1 in the
   simple variant *)
PLAYER_COLORS ==
  [rich |-> {"red", "yellow", "blue", "teal", "orange"},
   simple |-> {"blue", "green", "red", "purple", "orange", "pink", "teal",
               "indigo", "yellow", "lime", "cyan", "amber", "emerald", "rose",
               "violet"}]
InitialColor == [rich |-> "red", simple |-> "blue"]
TeamSize == [rich |-> 3, simple |-> 1]
QuestionZones == {"coral", "volcano", "kelp"}
CardZones == {"cave", "shipwreck"}
ZoneIds == QuestionZones \cup CardZones
PlayZones == {"coral", "cave"}   \* zones the modelled user clicks

ZonePageOf(z) == "zone-" \o z
ZonePages == {ZonePageOf(z) : z \in ZoneIds}
ZoneOfPage(page) == CHOOSE z \in ZoneIds : ZonePageOf(z) = page

(* QUESTIONS: the first three questions of each bank, as answer/difficulty;
   the two files hold the same questions. *)
QUESTIONS ==
  [z \in ZoneIds |->
     CASE z = "coral"     -> << [answer |-> 0, difficulty |-> "easy"],
                                [answer |-> 1, difficulty |-> "medium"],
                                [answer |-> 1, difficulty |-> "hard"] >>
       [] z = "volcano"   -> << [answer |-> 3, difficulty |-> "hard"],
                                [answer |-> 1, difficulty |-> "medium"],
                                [answer |-> 2, difficulty |-> "easy"] >>
       [] z = "kelp"      -> << [answer |-> 1, difficulty |-> "easy"],
                                [answer |-> 3, difficulty |-> "medium"],
                                [answer |-> 1, difficulty |-> "hard"] >>
       [] z = "cave"      -> << [answer |-> 0, difficulty |-> "medium"],
                                [answer |-> 1, difficulty |-> "hard"],
                                [answer |-> 1, difficulty |-> "easy"] >>
       [] z = "shipwreck" -> << [answer |-> 2, difficulty |-> "medium"],
                                [answer |-> 2, difficulty |-> "hard"],
                                [answer |-> 1, difficulty |-> "easy"] >> ]

(* Question indices are 0-based as in the source. *)
QuestionIndices(z) == 0 .. (Len(QUESTIONS[z]) - 1)
QuestionAt(z, i) == QUESTIONS[z][i + 1]
NoQuestion == -1        \* currentQuestion === null
NoAnswer == -1          \* selectedAnswer === null
AnswerOptions == 0 .. 3 \* every question has four options

(* CARD_REWARDS, by card id *)
CARD_REWARDS ==
  [ golden_shell     |-> [type |-> "coins",  amount |->  3, rarity |-> "common"],
    pearl_shell      |-> [type |-> "shells", amount |->  2, rarity |-> "common"],
    small_coin       |-> [type |-> "coins",  amount |->  1, rarity |-> "common"],
    basic_shell      |-> [type |-> "shells", amount |->  1, rarity |-> "common"],
    dolphin_help     |-> [type |-> "action", amount |->  1, rarity |-> "common"],
    wave_splash      |-> [type |-> "skip",   amount |->  0, rarity |-> "common"],
    small_blessing   |-> [type |-> "bonus",  amount |->  1, rarity |-> "common"],
    starfish_gift    |-> [type |-> "coins",  amount |->  2, rarity |-> "common"],
    magic_conch      |-> [type |-> "shells", amount |->  3, rarity |-> "rare"],
    turtle_blessing  |-> [type |-> "bonus",  amount |->  2, rarity |-> "rare"],
    crystal_coin     |-> [type |-> "coins",  amount |->  4, rarity |-> "rare"],
    whale_song       |-> [type |-> "action", amount |->  2, rarity |-> "rare"],
    seahorse_luck    |-> [type |-> "bonus",  amount |->  3, rarity |-> "rare"],
    jellyfish_dance  |-> [type |-> "shells", amount |->  4, rarity |-> "rare"],
    pirate_treasure  |-> [type |-> "coins",  amount |->  6, rarity |-> "epic"],
    mermaid_tear     |-> [type |-> "shells", amount |->  5, rarity |-> "epic"],
    kraken_power     |-> [type |-> "bonus",  amount |->  4, rarity |-> "epic"],
    coral_crown      |-> [type |-> "coins",  amount |->  7, rarity |-> "epic"],
    ocean_heart      |-> [type |-> "bonus",  amount |->  5, rarity |-> "epic"],
    poseidon_trident |-> [type |-> "bonus",  amount |->  8, rarity |-> "legendary"],
    legendary_shell  |-> [type |-> "shells", amount |-> 10, rarity |-> "legendary"],
    atlantis_coin    |-> [type |-> "coins",  amount |-> 12, rarity |-> "legendary"],
    leviathan_scale  |-> [type |-> "action", amount |->  5, rarity |-> "legendary"] ]
CardIds == DOMAIN CARD_REWARDS
(* the cards that the draws of a session return, unless its limits say more *)
ModelCards == {"wave_splash", "dolphin_help", "poseidon_trident"}
ZoneCards == {"wave_splash", "dolphin_help"}   \* ... as those of SpecZone do
NoCard == "none"        \* cardReward === null

(* weights that give every rarity the same share *)
FlatWeights == [common |-> 25, rare |-> 25, epic |-> 25, legendary |-> 25]
(* rarityWeights, in declaration order *)
RarityOrder == << "common", "rare", "epic", "legendary" >>
rarityWeights == [common |-> 50, rare |-> 30, epic |-> 15, legendary |-> 5]
(* Math.random() * totalWeight is a real number in [0, totalWeight). The loop
   compares it with sums of weights only, which are multiples of 1/DrawRes, so
   the draw space is kept as its points k/DrawRes and the open cells between
   two neighbouring points: the value 2k is the point k/DrawRes, the value
   2k+1 is any number strictly between k/DrawRes and (k+1)/DrawRes. A cell is
   1/DrawRes long and a point has no length. *)
TotalWeight ==
  rarityWeights.common + rarityWeights.rare + rarityWeights.epic
    + rarityWeights.legendary
DrawSpace == 0 .. (2 * TotalWeight * DrawRes - 1)
IsCell(random) == random % 2 = 1
DrawValues == {0, 2 * TotalWeight * DrawRes - 1}   \* the two ends of the draw space

(* a walk that stops only where the running sum is above the draw *)
RECURSIVE StrictSelectRarityFrom(_, _, _)
StrictSelectRarityFrom(random, i, currentWeight) ==
  IF i > Len(RarityOrder) THEN "common"
  ELSE LET w == currentWeight + rarityWeights[RarityOrder[i]]
       IN IF random < 2 * w * DrawRes THEN RarityOrder[i]
          ELSE StrictSelectRarityFrom(random, i + 1, w)

RECURSIVE SelectRarityFrom(_, _, _)
SelectRarityFrom(random, i, currentWeight) ==
  IF i > Len(RarityOrder) THEN "common"
  ELSE LET w == currentWeight + rarityWeights[RarityOrder[i]]
       IN IF random <= 2 * w * DrawRes THEN RarityOrder[i]
          ELSE SelectRarityFrom(random, i + 1, w)
SelectRarity(random) == SelectRarityFrom(random, 1, 0)
CardsOfRarity(r) == {c \in CardIds : CARD_REWARDS[c].rarity = r}
(* cardsOfRarity[Math.floor(Math.random() * cardsOfRarity.length)] *)
RandomCards(r) == CardsOfRarity(r) \cap limits.cards

(* the limits of the sessions of Spec *)
SpecLimits ==
  { [timeLimit |-> TimeLimit, horizon |-> MaxTime, players |-> 1,
     ops |-> MaxOps, chances |-> MaxActionChances,
   cards |-> ModelCards, draws |-> DrawValues, zones |-> PlayZones,
   colors |-> {}],
    [timeLimit |-> TimeLimit, horizon |-> ShortTime, players |-> MaxPlayers,
     ops |-> MaxOps, chances |-> MaxActionChances,
   cards |-> ModelCards, draws |-> DrawValues, zones |-> PlayZones,
   colors |-> {}] }

ClockLimits ==
  [timeLimit |-> TimeLimit, horizon |-> ClockMaxTime, players |-> MaxPlayers,
   ops |-> MaxOps, chances |-> MaxActionChances,
   cards |-> ModelCards, draws |-> DrawValues, zones |-> PlayZones,
   colors |-> {}]
TempleLimits ==
  [timeLimit |-> TempleTimeLimit, horizon |-> TempleMaxTime,
   players |-> MaxPlayers + 1, ops |-> MaxOps, chances |-> MaxActionChances,
   cards |-> ModelCards, draws |-> DrawValues, zones |-> PlayZones,
   colors |-> {}]
ZoneLimits ==
  [timeLimit |-> ZoneTimeLimit, horizon |-> ZoneMaxTime, players |-> 1,
   ops |-> ZoneMaxOps, chances |-> ZoneChances,
   cards |-> ZoneCards, draws |-> {0}, zones |-> PlayZones,
   colors |-> {}]
(* joins with and without a click on a colour button *)
JoinColors == {"yellow"}
JoinLimits ==
  [timeLimit |-> ZoneTimeLimit, horizon |-> JoinMaxTime,
   players |-> JoinMaxPlayers, ops |-> MaxOps, chances |-> MaxActionChances,
   cards |-> ModelCards, draws |-> DrawValues, zones |-> PlayZones,
   colors |-> JoinColors]
(* calls of the provider's functions for a player on the map *)
ApiLimits ==
  [timeLimit |-> ZoneTimeLimit, horizon |-> ZoneMaxTime, players |-> 1,
   ops |-> ApiMaxLen, chances |-> ZoneChances,
   cards |-> ModelCards, draws |-> DrawValues, zones |-> PlayZones,
   colors |-> {}]
(* one operation after the first, on any zone page, with any draw value and
   any card of the table *)
RewardLimits ==
  [timeLimit |-> ZoneTimeLimit, horizon |-> ZoneMaxTime, players |-> 1,
   ops |-> RewardOps, chances |-> ZoneChances,
   cards |-> CardIds, draws |-> DrawSpace, zones |-> ZoneIds,
   colors |-> {}]

----------------------------------------------------------------------------
(* The game clock *)

(* MapPage: timeLeft = max(0, timeLimit*60*1000 - (Date.now() - gameStartTime)) *)
MapTimeLeft(t, gst) == Max(0, limits.timeLimit - (t - gst))

(* GameTimer tick: remaining, with the pause bookkeeping of the rich variant *)
TimerRemaining(t, gst, tpt, pst) ==
  LET currentPauseTime == IF pst # Null THEN tpt + (t - pst) ELSE tpt
      elapsed == t - gst - currentPauseTime
  IN Max(0, limits.timeLimit - elapsed)

Remaining == TimerRemaining(now, gameStartTime, totalPauseTime, pauseStartTime)

----------------------------------------------------------------------------
(* GameProvider *)

DefaultColor == InitialColor[variant]
(* availableColors of SetupPage *)
PlayersWithColor(ps, c) == {id \in DOMAIN ps : ps[id].color = c}
AvailableColorsOf(ps) ==
  {c \in PLAYER_COLORS[variant] :
     Cardinality(PlayersWithColor(ps, c)) < TeamSize[variant]}
AvailableColors == AvailableColorsOf(players)

NewPlayer(t) ==
  [ coins |-> 0, shells |-> 0, completedZones |-> << >>,
    zoneProgress |-> [z \in ZoneIds |-> 0],
    answeredQuestions |-> [z \in ZoneIds |-> << >>],
    actionChances |-> limits.chances, log |-> << >>,
    totalScore |-> 0, isWinner |-> FALSE, winTime |-> Null,
    collectedCards |-> << >>, color |-> DefaultColor ]

(* log entries of the session: one per answer, draw and restore *)
RECURSIVE SumLog(_, _)
SumLog(ps, ids) ==
  IF ids = {} THEN 0
  ELSE LET id == CHOOSE i \in ids : TRUE
       IN Len(ps[id].log) + SumLog(ps, ids \ {id})
OpsDone == SumLog(players, DOMAIN players)

(* a score that is kept as handed in instead of being recomputed *)
StoredScoreOf(p) == p.totalScore

TotalScoreOf(p) == p.coins * 2 + p.shells * 5 + Len(p.completedZones) * 10

(* an updatePlayer that makes a record for an id it does not know *)
UpsertPlayer(ps, id, updates, t) ==
  LET player == IF id \in DOMAIN ps THEN ps[id] ELSE NewPlayer(t)
      merged == [f \in DOMAIN player |->
                   IF f \in DOMAIN updates THEN updates[f] ELSE player[f]]
  IN (id :> [merged EXCEPT !.totalScore = TotalScoreOf(merged)]) @@ ps

(* updatePlayer(playerId, updates): merge the updates and recompute the score.
   The lastActive stamp is read by the leaderboard only and is not part of the
   player records of this state machine. *)
UpdatePlayer(ps, id, updates, t) ==
  IF id \notin DOMAIN ps THEN ps
  ELSE LET player == ps[id]
           merged == [f \in DOMAIN player |->
                        IF f \in DOMAIN updates THEN updates[f] ELSE player[f]]
       IN [ps EXCEPT ![id] = [merged EXCEPT !.totalScore = TotalScoreOf(merged)]]

(* an addCard that keeps one entry for each template *)
AddCardOnce(ps, snap, id, card, t) ==
  IF id \in DOMAIN snap /\ ~Includes(snap[id].collectedCards, card)
    THEN UpdatePlayer(ps, id, [collectedCards |-> Append(snap[id].collectedCards, card)], t)
    ELSE ps

(* addLog / addCard read the player of the rendered gameState (snap) and
   hand the extended list to updatePlayer *)
AddLog(ps, snap, id, entry, t) ==
  IF id \in DOMAIN snap
    THEN UpdatePlayer(ps, id, [log |-> Append(snap[id].log, entry)], t)
    ELSE ps
AddCard(ps, snap, id, card, t) ==
  IF id \in DOMAIN snap
    THEN UpdatePlayer(ps, id, [collectedCards |-> Append(snap[id].collectedCards, card)], t)
    ELSE ps

----------------------------------------------------------------------------
(* Leaderboard *)

OrZero(x) == IF x = Null THEN 0 ELSE x    \* x || 0

(* a comparator that puts the lower score first among players without a win *)
CompareLowScoreFirst(a, b) ==
  IF a.isWinner /\ ~b.isWinner THEN -1
  ELSE IF ~a.isWinner /\ b.isWinner THEN 1
  ELSE IF a.isWinner /\ b.isWinner
    THEN IF variant = "rich" /\ OrZero(a.winTime) = OrZero(b.winTime)
           THEN b.totalScore - a.totalScore
           ELSE OrZero(a.winTime) - OrZero(b.winTime)
  ELSE IF variant = "rich" /\ a.totalScore = b.totalScore
    THEN a.lastActive - b.lastActive
  ELSE a.totalScore - b.totalScore

(* a comparator that answers 1 for two players it cannot tell apart *)
CompareTiesAfter(a, b) ==
  IF a.isWinner /\ ~b.isWinner THEN -1
  ELSE IF ~a.isWinner /\ b.isWinner THEN 1
  ELSE IF a.isWinner /\ b.isWinner
    THEN IF OrZero(a.winTime) # OrZero(b.winTime)
           THEN OrZero(a.winTime) - OrZero(b.winTime)
           ELSE 1
  ELSE IF a.totalScore # b.totalScore THEN b.totalScore - a.totalScore
  ELSE 1

(* the comparator handed to players.sort: negative when a comes first *)
Compare(a, b) ==
  IF a.isWinner /\ ~b.isWinner THEN -1
  ELSE IF ~a.isWinner /\ b.isWinner THEN 1
  ELSE IF a.isWinner /\ b.isWinner
    THEN IF variant = "rich" /\ OrZero(a.winTime) = OrZero(b.winTime)
           THEN b.totalScore - a.totalScore
           ELSE OrZero(a.winTime) - OrZero(b.winTime)
  ELSE IF variant = "rich" /\ a.totalScore = b.totalScore
    THEN a.lastActive - b.lastActive
  ELSE b.totalScore - a.totalScore

(* Array.prototype.sort is stable: an insertion sort by Compare over the ids
   in the order of Object.values, which is the order of joining *)
RECURSIVE InsertSorted(_, _, _)
InsertSorted(ps, sorted, id) ==
  IF sorted = << >> THEN << id >>
  ELSE IF Compare(ps[sorted[Len(sorted)]], ps[id]) <= 0 THEN Append(sorted, id)
  ELSE Append(InsertSorted(ps, SubSeq(sorted, 1, Len(sorted) - 1), id),
              sorted[Len(sorted)])

RECURSIVE SortIds(_, _)
SortIds(ps, n) ==
  IF n = 0 THEN << >> ELSE InsertSorted(ps, SortIds(ps, n - 1), n)

(* sortedPlayers = Object.values(players).sort(compare).slice(0, 8), as ids *)
SortedPlayers(ps) ==
  SubSeq(SortIds(ps, Cardinality(DOMAIN ps)), 1,
         Min(Cardinality(DOMAIN ps), BoardSize))

----------------------------------------------------------------------------
(* Rendering.  Every change of gameState re-renders the components that read
   the context; the clock advancing does not. *)

MapShown(page, cp, ps) == page = "map" /\ cp \in DOMAIN ps
PauseButtonShown ==
  /\ variant = "rich"
  /\ currentPlayer \in DOMAIN players
  /\ \/ currentPage = "map"
     \/ currentPage \in ZonePages
     \/ currentPage = "temple" /\ ~(players[currentPlayer].isWinner \/ tComplete)

(* MapPage computes gameEnded while rendering; GameTimer is its child: its
   state lives while the map of a player is shown, its interval is set up
   again by every render of the provider (playSound is a dependency), and its
   second effect adds a finished pause to totalPauseTime. *)
RenderMap ==
  LET shown == MapShown(currentPage', currentPlayer', players')
      kept == shown /\ MapShown(currentPage, currentPlayer, players)
      base == IF kept THEN totalPauseTime ELSE 0
      depsChanged == ~kept \/ isPaused' # isPaused \/ pauseStartTime' # pauseStartTime
  IN /\ mapGameEnded' = (shown /\ MapTimeLeft(now, gameStartTime') = 0)
     /\ timerDue' = IF shown THEN now + TickPeriod ELSE Null
     /\ hasWarned' = (kept /\ hasWarned)
     /\ totalPauseTime' =
          IF shown /\ depsChanged /\ ~isPaused' /\ pauseStartTime' # Null
            THEN base + (now - pauseStartTime')
            ELSE IF shown THEN base ELSE 0

(* an effect that picks among all the questions of the zone *)
AllQuestions(p, z) == QuestionIndices(z)

(* an effect that starts the bank of a zone over once it is used up *)
ResettingQuestions(p, z) ==
  LET open == {i \in QuestionIndices(z) : ~Includes(p.answeredQuestions[z], i)}
  IN IF open = {} THEN QuestionIndices(z) ELSE open

(* questions the ZonePage effect can present to player p in zone z *)
AvailableQuestions(p, z) ==
  IF variant = "rich"
    THEN {i \in QuestionIndices(z) : ~Includes(p.answeredQuestions[z], i)}
    ELSE QuestionIndices(z)
TaskTypes(z) ==
  IF variant = "rich"
    THEN IF z \in QuestionZones THEN {"question"} ELSE {"card"}
    ELSE {"question", "card"}

(* the ZonePage effect: taskType and currentQuestion *)
ZoneEffect(p, z, oldQuestion) ==
  \E tt \in TaskTypes(z) :
    /\ zTaskType' = tt
    /\ IF tt = "question" /\ AvailableQuestions(p, z) # {}
         THEN zQuestion' \in AvailableQuestions(p, z)
         ELSE zQuestion' = oldQuestion

IsTempleTimeout(t) == t.kind \in {"templeNext", "templeReset"}

(* Component state on navigation: GameApp keys the page by currentPage, so a
   page's local state is created when the page is entered and dropped when it
   is left; the temple's pending callbacks then act on a dropped instance. *)
PageLocals(pending) ==
  IF currentPage' = currentPage
    THEN /\ UNCHANGED <<isJoining, selectedColor, zoneVars, templeVars>>
         /\ timeouts' = pending
    ELSE /\ isJoining' = FALSE /\ selectedColor' = DefaultColor
         /\ tPuzzleIndex' = 0 /\ tCorrect' = 0 /\ tStreak' = 0
         /\ tShowResult' = FALSE /\ tComplete' = FALSE
         /\ timeouts' = {t \in pending : ~IsTempleTimeout(t)}
         /\ zSelected' = NoAnswer /\ zShowResult' = FALSE
         /\ zCardReward' = NoCard /\ zRandom' = Null
         /\ IF currentPage' \in ZonePages /\ currentPlayer' \in DOMAIN players'
              THEN ZoneEffect(players'[currentPlayer'], ZoneOfPage(currentPage'), NoQuestion)
              ELSE zTaskType' = "none" /\ zQuestion' = NoQuestion

(* updateGameState({ currentPage: page }), leaving the callbacks of pending *)
NavigateWith(page, pending) ==
  /\ currentPage' = page
  /\ UNCHANGED <<players, currentPlayer, gameWinner, winnerTime, gameStartTime,
                 gameMode, isPaused, pauseStartTime>>
  /\ RenderMap
  /\ PageLocals(pending)
  /\ UNCHANGED <<variant, limits, sortedPlayers, tFailed, now, soundVars,
                 remAtPause>>
Navigate(page) == NavigateWith(page, timeouts)

----------------------------------------------------------------------------
(* the state after GameProvider is constructed *)
Construction ==
  /\ variant \in Variants
  /\ now = 0
  /\ currentPage = "home" /\ players = << >> /\ currentPlayer = NoPlayer
  /\ gameWinner = NoPlayer /\ winnerTime = Null
  /\ gameStartTime = 0 /\ gameMode = "setup"
  /\ isPaused = FALSE /\ pauseStartTime = Null
  /\ isJoining = FALSE /\ selectedColor = DefaultColor /\ mapGameEnded = FALSE
  /\ timerDue = Null /\ hasWarned = FALSE /\ totalPauseTime = 0
  /\ zTaskType = "none" /\ zQuestion = NoQuestion
  /\ zSelected = NoAnswer /\ zShowResult = FALSE
  /\ zCardReward = NoCard /\ zRandom = Null
  /\ tPuzzleIndex = 0 /\ tCorrect = 0 /\ tShowResult = FALSE /\ tComplete = FALSE
  /\ tStreak = 0 /\ tFailed = {}
  /\ timeouts = {}
  /\ warnCount = 0 /\ timeupCount = 0
  /\ remAtPause = Null
  /\ sortedPlayers = << >>

Init ==
  /\ limits \in SpecLimits
  /\ Construction

(* HomePage: start button *)
HomeStart ==
  /\ currentPage = "home"
  /\ Navigate("setup")

(* SetupPage (pages setup and lobby) *)
OnSetup == currentPage \in {"setup", "lobby"}

SetupBackHome ==
  /\ OnSetup /\ ~isJoining
  /\ Navigate("home")

(* handleJoinGame with a non-empty name: addPlayer, setCurrentPlayer and the
   callback that opens the lobby one second later *)
JoinGame ==
  /\ OnSetup /\ ~isJoining
  /\ AvailableColors # {}
  /\ Cardinality(DOMAIN players) < limits.players
  /\ LET playerId == Cardinality(DOMAIN players) + 1
     IN /\ players' = players @@
                     (playerId :> [NewPlayer(now) EXCEPT !.color = selectedColor])
        /\ currentPlayer' = playerId
  /\ isJoining' = TRUE /\ selectedColor' = selectedColor
  /\ timeouts' = timeouts \cup {[kind |-> "join", due |-> now + JoinDelay]}
  /\ UNCHANGED <<currentPage, gameWinner, winnerTime, gameStartTime, gameMode,
                 isPaused, pauseStartTime>>
  /\ RenderMap
  /\ UNCHANGED <<variant, limits, sortedPlayers, tFailed, now, zoneVars,
                 templeVars, soundVars, remAtPause>>

(* a click on one of the colour buttons, which are rendered for the available
   colours *)
SelectColor ==
  /\ OnSetup /\ ~isJoining
  /\ \E c \in AvailableColors \cap limits.colors : selectedColor' = c
  /\ UNCHANGED <<variant, limits, sortedPlayers, tFailed, now, gameVars,
                 isJoining, mapGameEnded, timerVars, zoneVars, templeVars,
                 timeouts, soundVars, remAtPause>>

JoinTimeout ==
  \E t \in timeouts :
    /\ t.kind = "join" /\ t.due <= now
    /\ currentPage' = "lobby"
    /\ gameMode' = "playing"
    /\ gameStartTime' = now
    /\ UNCHANGED <<players, currentPlayer, gameWinner, winnerTime, isPaused,
                   pauseStartTime>>
    /\ RenderMap
    /\ PageLocals(timeouts \ {t})
    /\ UNCHANGED <<variant, limits, sortedPlayers, tFailed, now, soundVars,
                   remAtPause>>

SetupStartGame ==
  /\ OnSetup
  /\ DOMAIN players # {}
  /\ Navigate("map")

----------------------------------------------------------------------------
(* MapPage *)

(* the player picker, shown while currentPlayer is null or '' *)
OnPicker == currentPage = "map" /\ currentPlayer = NoPlayer
OnMap == MapShown(currentPage, currentPlayer, players)

(* setCurrentPlayer(playerId) *)
SetCurrentPlayer(id) ==
  /\ currentPlayer' = id
  /\ UNCHANGED <<currentPage, players, gameWinner, winnerTime, gameStartTime,
                 gameMode, isPaused, pauseStartTime>>
  /\ RenderMap
  /\ PageLocals(timeouts)
  /\ UNCHANGED <<variant, limits, sortedPlayers, tFailed, now, soundVars,
                 remAtPause>>

PickPlayer ==
  /\ OnPicker
  /\ \E id \in DOMAIN players : SetCurrentPlayer(id)

PickerBack ==
  /\ OnPicker
  /\ Navigate("setup")

SwitchPlayer ==
  /\ OnMap
  /\ SetCurrentPlayer(NoPlayer)

(* the button of the time-up dialog, rendered when gameEnded *)
ViewLeaderboard ==
  /\ OnMap /\ mapGameEnded
  /\ SetCurrentPlayer(NoPlayer)

MapBackToSetup ==
  /\ OnMap
  /\ Navigate("setup")

canEnterTemple(p) == p.coins >= TempleCoins /\ p.shells >= TempleShells

(* a zone button that does not look at the action chances *)
canPlayWithoutChances(p) ==
  /\ ~mapGameEnded
  /\ ~p.isWinner
  /\ (variant = "rich" => ~isPaused)

canPlay(p) ==
  /\ p.actionChances > 0
  /\ ~mapGameEnded
  /\ ~p.isWinner
  /\ (variant = "rich" => ~isPaused)

(* a temple button that does not look at the player's coins and shells *)
OpenTempleGate(p) ==
  /\ ~mapGameEnded
  /\ (variant = "rich" => ~isPaused)

TempleGate(p) ==
  /\ canEnterTemple(p)
  /\ ~mapGameEnded
  /\ (variant = "rich" => ~isPaused)

EnterTemple ==
  /\ OnMap
  /\ TempleGate(players[currentPlayer])
  /\ Navigate("temple")

EnterZone ==
  /\ OnMap
  /\ canPlay(players[currentPlayer])
  /\ \E z \in limits.zones : Navigate(ZonePageOf(z))

(* the restore button: rendered when actionChances === 0 && !gameEnded &&
   !isWinner *)
Restore ==
  /\ OnMap
  /\ LET p == players[currentPlayer]
     IN /\ p.actionChances = 0 /\ ~mapGameEnded /\ ~p.isWinner
        /\ OpsDone < limits.ops
        /\ players' =
             AddLog(UpdatePlayer(players, currentPlayer,
                      [actionChances |-> Min(p.actionChances + RestoreAmount,
                                             limits.chances)], now),
                    players, currentPlayer,
                    [type |-> "restore", zone |-> "system", result |-> "success"],
                    now)
  /\ UNCHANGED <<currentPage, currentPlayer, gameWinner, winnerTime,
                 gameStartTime, gameMode, isPaused, pauseStartTime>>
  /\ RenderMap
  /\ PageLocals(timeouts)
  /\ UNCHANGED <<variant, limits, sortedPlayers, tFailed, now, soundVars,
                 remAtPause>>

----------------------------------------------------------------------------
(* ZonePage *)

OnZone == currentPage \in ZonePages /\ currentPlayer \in DOMAIN players
zoneId == ZoneOfPage(currentPage)
NotPausedInRich == variant = "rich" => ~isPaused

QuestionFormShown ==
  /\ OnZone /\ ~zShowResult /\ zTaskType = "question" /\ zQuestion # NoQuestion
  /\ NotPausedInRich
CardFormShown ==
  /\ OnZone /\ ~zShowResult /\ zTaskType = "card"
  /\ NotPausedInRich

(* options the modelled user picks: the right one and a wrong one *)
AnswerChoices(q) == {q.answer, (q.answer + 1) % 4}

SelectAnswer ==
  /\ QuestionFormShown
  /\ \E i \in AnswerChoices(QuestionAt(zoneId, zQuestion)) :
       /\ i \in AnswerOptions
       /\ zSelected' = i
  /\ UNCHANGED <<variant, limits, sortedPlayers, tFailed, now, gameVars,
                 isJoining, selectedColor, mapGameEnded, timerVars, zTaskType, zQuestion,
                 zShowResult, zCardReward, zRandom, templeVars, timeouts,
                 soundVars, remAtPause>>

(* a pick that takes every question for an easy one *)
AlwaysEasy(d, easy, medium, hard) == easy

DifficultyPick(d, easy, medium, hard) ==
  IF d = "easy" THEN easy ELSE IF d = "medium" THEN medium ELSE hard

(* rich-variant updates in which a wrong answer is not recorded *)
RichWrongUnrecorded(p, z, qi, isCorrect) ==
  LET q == QuestionAt(z, qi)
      newAnsweredQuestions == Append(p.answeredQuestions[z], qi)
      baseScore == DifficultyPick(q.difficulty, 10, 15, 20)
      shellReward == IF z = "coral" THEN DifficultyPick(q.difficulty, 1, 2, 3) ELSE 0
      coinReward == IF z \in {"volcano", "kelp"}
                      THEN DifficultyPick(q.difficulty, 2, 3, 4) ELSE 0
      scoreReward == IF z \in {"coral", "volcano", "kelp"} THEN baseScore ELSE 0
      zoneProgress == p.zoneProgress[z] + 1
      isZoneCompleted == zoneProgress >= 3
  IN IF isCorrect
       THEN [ coins |-> p.coins + coinReward,
              shells |-> p.shells + shellReward,
              totalScore |-> p.totalScore + scoreReward,
              actionChances |-> p.actionChances - 1,
              zoneProgress |-> [p.zoneProgress EXCEPT ![z] = zoneProgress],
              answeredQuestions |-> [p.answeredQuestions EXCEPT ![z] = newAnsweredQuestions],
              completedZones |-> IF isZoneCompleted /\ ~Includes(p.completedZones, z)
                                   THEN Append(p.completedZones, z)
                                   ELSE p.completedZones ]
       ELSE [ actionChances |-> p.actionChances - 1 ]

(* rich-variant updates in which two correct answers complete a zone *)
RichCompletesAtTwo(p, z, qi, isCorrect) ==
  LET q == QuestionAt(z, qi)
      newAnsweredQuestions == Append(p.answeredQuestions[z], qi)
      baseScore == DifficultyPick(q.difficulty, 10, 15, 20)
      shellReward == IF z = "coral" THEN DifficultyPick(q.difficulty, 1, 2, 3) ELSE 0
      coinReward == IF z \in {"volcano", "kelp"}
                      THEN DifficultyPick(q.difficulty, 2, 3, 4) ELSE 0
      scoreReward == IF z \in {"coral", "volcano", "kelp"} THEN baseScore ELSE 0
      zoneProgress == p.zoneProgress[z] + 1
      isZoneCompleted == zoneProgress >= 2
  IN IF isCorrect
       THEN [ coins |-> p.coins + coinReward,
              shells |-> p.shells + shellReward,
              totalScore |-> p.totalScore + scoreReward,
              actionChances |-> p.actionChances - 1,
              zoneProgress |-> [p.zoneProgress EXCEPT ![z] = zoneProgress],
              answeredQuestions |-> [p.answeredQuestions EXCEPT ![z] = newAnsweredQuestions],
              completedZones |-> IF isZoneCompleted /\ ~Includes(p.completedZones, z)
                                   THEN Append(p.completedZones, z)
                                   ELSE p.completedZones ]
       ELSE [ actionChances |-> p.actionChances - 1,
              answeredQuestions |-> [p.answeredQuestions EXCEPT ![z] = newAnsweredQuestions] ]

(* the updates handleQuestionAnswer hands to updatePlayer, rich variant *)
RichAnswerUpdates(p, z, qi, isCorrect) ==
  LET q == QuestionAt(z, qi)
      newAnsweredQuestions == Append(p.answeredQuestions[z], qi)
      baseScore == DifficultyPick(q.difficulty, 10, 15, 20)
      shellReward == IF z = "coral" THEN DifficultyPick(q.difficulty, 1, 2, 3) ELSE 0
      coinReward == IF z \in {"volcano", "kelp"}
                      THEN DifficultyPick(q.difficulty, 2, 3, 4) ELSE 0
      scoreReward == IF z \in {"coral", "volcano", "kelp"} THEN baseScore ELSE 0
      zoneProgress == p.zoneProgress[z] + 1
      isZoneCompleted == zoneProgress >= 3
  IN IF isCorrect
       THEN [ coins |-> p.coins + coinReward,
              shells |-> p.shells + shellReward,
              totalScore |-> p.totalScore + scoreReward,
              actionChances |-> p.actionChances - 1,
              zoneProgress |-> [p.zoneProgress EXCEPT ![z] = zoneProgress],
              answeredQuestions |-> [p.answeredQuestions EXCEPT ![z] = newAnsweredQuestions],
              completedZones |-> IF isZoneCompleted /\ ~Includes(p.completedZones, z)
                                   THEN Append(p.completedZones, z)
                                   ELSE p.completedZones ]
       ELSE [ actionChances |-> p.actionChances - 1,
              answeredQuestions |-> [p.answeredQuestions EXCEPT ![z] = newAnsweredQuestions] ]

(* simple-variant updates in which a wrong answer costs no action chance *)
SimpleWrongAnswerFree(p, z, qi, isCorrect, bonusReward) ==
  LET q == QuestionAt(z, qi)
      baseReward == DifficultyPick(q.difficulty, 1, 2, 3)
      totalReward == baseReward + bonusReward
  IN IF isCorrect
       THEN [ coins |-> p.coins + totalReward,
              actionChances |-> p.actionChances - 1,
              completedZones |-> IF Includes(p.completedZones, z)
                                   THEN p.completedZones
                                   ELSE Append(p.completedZones, z) ]
       ELSE [ actionChances |-> p.actionChances ]

(* the same for the simple variant; bonusReward is Math.random() < 0.3 ? 1 : 0 *)
SimpleAnswerUpdates(p, z, qi, isCorrect, bonusReward) ==
  LET q == QuestionAt(z, qi)
      baseReward == DifficultyPick(q.difficulty, 1, 2, 3)
      totalReward == baseReward + bonusReward
  IN IF isCorrect
       THEN [ coins |-> p.coins + totalReward,
              actionChances |-> p.actionChances - 1,
              completedZones |-> IF Includes(p.completedZones, z)
                                   THEN p.completedZones
                                   ELSE Append(p.completedZones, z) ]
       ELSE [ actionChances |-> p.actionChances - 1 ]

(* what follows the player update in both zone handlers: the result view, the
   callback that returns to the map, and (rich variant) the effect that runs
   again because the player object changed *)
ZoneAfterUpdate ==
  /\ zShowResult' = TRUE
  /\ timeouts' = timeouts \cup {[kind |-> "toMap", due |-> now + ZoneReturnDelay]}
  /\ IF variant = "rich"
       THEN ZoneEffect(players'[currentPlayer], zoneId, zQuestion)
       ELSE UNCHANGED <<zTaskType, zQuestion>>
  /\ UNCHANGED <<currentPage, currentPlayer, gameWinner, winnerTime,
                 gameStartTime, gameMode, isPaused, pauseStartTime>>
  /\ RenderMap
  /\ UNCHANGED <<variant, limits, sortedPlayers, tFailed, now, isJoining,
                 selectedColor,
                 zSelected, templeVars, soundVars, remAtPause>>

(* handleQuestionAnswer *)
SubmitAnswer ==
  /\ QuestionFormShown
  /\ zSelected # NoAnswer
  /\ LET p == players[currentPlayer]
         isCorrect == zSelected = QuestionAt(zoneId, zQuestion).answer
     IN /\ OpsDone < limits.ops
        /\ \E bonusReward \in {0, 1} :
             /\ (variant = "rich" \/ ~isCorrect) => bonusReward = 0
             /\ players' =
                  AddLog(UpdatePlayer(players, currentPlayer,
                           IF variant = "rich"
                             THEN RichAnswerUpdates(p, zoneId, zQuestion, isCorrect)
                             ELSE SimpleAnswerUpdates(p, zoneId, zQuestion, isCorrect,
                                                      bonusReward),
                           now),
                         players, currentPlayer,
                         [type |-> "question", zone |-> zoneId,
                          result |-> IF isCorrect THEN "success" ELSE "failed"],
                         now)
  /\ UNCHANGED <<zCardReward, zRandom>>
  /\ ZoneAfterUpdate

(* card updates that add the zone to completedZones on every draw *)
CardAlwaysCompletes(p, z, card) ==
  LET base == [ actionChances |-> p.actionChances - 1,
                completedZones |-> Append(p.completedZones, z) ]
      scored == IF variant = "rich"
                  THEN base @@ [totalScore |-> p.totalScore + 15]
                  ELSE base
  IN CASE card.type = "coins"  -> [coins |-> p.coins + card.amount] @@ scored
       [] card.type = "shells" -> [shells |-> p.shells + card.amount] @@ scored
       [] card.type = "bonus"  -> [coins |-> p.coins + card.amount,
                                   shells |-> p.shells + card.amount] @@ scored
       [] card.type = "action" -> [actionChances |-> p.actionChances + card.amount]
                                    @@ scored
       [] OTHER -> scored

(* card updates whose action cards stop at the maximum *)
ClampedCardUpdates(p, z, card) ==
  LET base == [ actionChances |-> p.actionChances - 1,
                completedZones |-> IF Includes(p.completedZones, z)
                                     THEN p.completedZones
                                     ELSE Append(p.completedZones, z) ]
      scored == IF variant = "rich"
                  THEN base @@ [totalScore |-> p.totalScore + 15]
                  ELSE base
      raised == p.actionChances + card.amount
  IN CASE card.type = "coins"  -> [coins |-> p.coins + card.amount] @@ scored
       [] card.type = "shells" -> [shells |-> p.shells + card.amount] @@ scored
       [] card.type = "bonus"  -> [coins |-> p.coins + card.amount,
                                   shells |-> p.shells + card.amount] @@ scored
       [] card.type = "action" ->
            [actionChances |-> IF raised < limits.chances THEN raised
                               ELSE limits.chances] @@ scored
       [] OTHER -> scored

(* the updates handleCardDraw hands to updatePlayer *)
CardUpdates(p, z, card) ==
  LET base == [ actionChances |-> p.actionChances - 1,
                completedZones |-> IF Includes(p.completedZones, z)
                                     THEN p.completedZones
                                     ELSE Append(p.completedZones, z) ]
      scored == IF variant = "rich"
                  THEN base @@ [totalScore |-> p.totalScore + 15]
                  ELSE base
  IN CASE card.type = "coins"  -> [coins |-> p.coins + card.amount] @@ scored
       [] card.type = "shells" -> [shells |-> p.shells + card.amount] @@ scored
       [] card.type = "bonus"  -> [coins |-> p.coins + card.amount,
                                   shells |-> p.shells + card.amount] @@ scored
       [] card.type = "action" -> [actionChances |-> p.actionChances + card.amount]
                                    @@ scored
       [] OTHER -> scored

(* the log entry of a draw *)
CardLog(z, c) ==
  [type |-> "card", zone |-> z,
   result |-> IF CARD_REWARDS[c].type = "skip" THEN "skip" ELSE "success"]

(* handleCardDraw *)
DrawCard ==
  /\ CardFormShown
  /\ LET p == players[currentPlayer]
     IN /\ OpsDone < limits.ops
        /\ \E random \in limits.draws :
             \E c \in RandomCards(SelectRarity(random)) :
               /\ zRandom' = random
               /\ zCardReward' = c
               /\ players' =
                    AddLog(AddCard(UpdatePlayer(players, currentPlayer,
                                     CardUpdates(p, zoneId, CARD_REWARDS[c]), now),
                                   players, currentPlayer, c, now),
                           players, currentPlayer, CardLog(zoneId, c), now)
  /\ ZoneAfterUpdate

(* the back buttons of the zone page *)
ZoneBack ==
  /\ currentPage \in ZonePages
  /\ Navigate("map")

(* the callback set by an answer or a draw: updateGameState({currentPage: 'map'}) *)
ToMapTimeout ==
  \E t \in timeouts :
    /\ t.kind = "toMap" /\ t.due <= now
    /\ NavigateWith("map", timeouts \ {t})

----------------------------------------------------------------------------
(* TemplePage *)

OnTemple == currentPage = "temple" /\ currentPlayer \in DOMAIN players
VictoryShown == OnTemple /\ (players[currentPlayer].isWinner \/ tComplete)
TempleFormShown ==
  /\ OnTemple /\ ~VictoryShown
  /\ ~tShowResult /\ tPuzzleIndex < NumTemplePuzzles
  /\ NotPausedInRich

(* a winning branch that marks the first winner only *)
LaterWinnersUnmarked(p, first, winTime) ==
  IF variant = "rich"
    THEN [ isWinner |-> first, winTime |-> IF first THEN winTime ELSE Null,
           coins |-> p.coins + (IF first THEN 50 ELSE 30),
           shells |-> p.shells + (IF first THEN 25 ELSE 15),
           totalScore |-> p.totalScore + (IF first THEN 100 ELSE 60) ]
    ELSE [ isWinner |-> first, winTime |-> IF first THEN winTime ELSE Null,
           coins |-> p.coins + (IF first THEN 20 ELSE 10),
           shells |-> p.shells + (IF first THEN 10 ELSE 5) ]

(* a winning branch that takes the price of the temple out of the coins *)
PaidWinUpdates(p, first, winTime) ==
  [ isWinner |-> TRUE, winTime |-> winTime,
    coins |-> p.coins - TempleCoins,
    shells |-> p.shells + (IF first THEN 25 ELSE 15) ]

(* a winning branch that stamps the first winner only *)
LaterWinnersUntimed(p, first, winTime) ==
  [ isWinner |-> TRUE, winTime |-> IF first THEN winTime ELSE 0,
    coins |-> p.coins + (IF first THEN 50 ELSE 30),
    shells |-> p.shells + (IF first THEN 25 ELSE 15) ]

(* the updates of the winning branch of handleSubmit *)
WinUpdates(p, first, winTime) ==
  IF variant = "rich"
    THEN [ isWinner |-> TRUE, winTime |-> winTime,
           coins |-> p.coins + (IF first THEN 50 ELSE 30),
           shells |-> p.shells + (IF first THEN 25 ELSE 15),
           totalScore |-> p.totalScore + (IF first THEN 100 ELSE 60) ]
    ELSE [ isWinner |-> TRUE, winTime |-> winTime,
           coins |-> p.coins + (IF first THEN 20 ELSE 10),
           shells |-> p.shells + (IF first THEN 10 ELSE 5) ]

(* a winning branch that writes the session's winner every time *)
EveryWinnerIsFirst == TRUE

(* whether handleSubmit writes the session's winner *)
IsFirstWinner == gameWinner = NoPlayer

(* the winning branch: the session's winner is written by the first winner only *)
TempleWin ==
  LET p == players[currentPlayer]
      winTime == now
      gameTime == winTime - gameStartTime
  IN /\ IF IsFirstWinner
          THEN gameWinner' = currentPlayer /\ winnerTime' = gameTime
          ELSE UNCHANGED <<gameWinner, winnerTime>>
     /\ players' = UpdatePlayer(players, currentPlayer,
                                WinUpdates(p, IsFirstWinner, winTime), now)

(* handleSubmit; correct is the outcome of matching the typed answer *)
TempleSubmit ==
  /\ TempleFormShown
  /\ \E correct \in BOOLEAN :
       /\ tShowResult' = TRUE
       /\ tStreak' = IF correct THEN tStreak + 1 ELSE 0
       /\ tFailed' = IF correct THEN tFailed ELSE tFailed \cup {currentPlayer}
       /\ IF variant = "rich"
            THEN IF correct
                   THEN LET newCorrectCount == tCorrect + 1
                        IN /\ tCorrect' = newCorrectCount
                           /\ IF newCorrectCount >= 3
                                   \/ tPuzzleIndex >= NumTemplePuzzles - 1
                                THEN /\ TempleWin
                                     /\ tComplete' = TRUE
                                     /\ timeouts' = timeouts
                                ELSE /\ UNCHANGED <<players, gameWinner,
                                                    winnerTime,
                                                    tComplete>>
                                     /\ timeouts' = timeouts \cup
                                          {[kind |-> "templeNext",
                                            due |-> now + TempleNextDelay]}
                   ELSE /\ UNCHANGED <<players, gameWinner, winnerTime,
                                       tCorrect,
                                       tComplete>>
                        /\ timeouts' = timeouts \cup
                             {[kind |-> "templeReset", due |-> now + TempleResetDelay]}
            ELSE /\ IF correct
                      THEN TempleWin
                      ELSE UNCHANGED <<players, gameWinner, winnerTime>>
                 /\ UNCHANGED <<tCorrect, tComplete, timeouts>>
  /\ UNCHANGED <<currentPage, currentPlayer, gameStartTime, gameMode, isPaused,
                 pauseStartTime, tPuzzleIndex>>
  /\ RenderMap
  /\ UNCHANGED <<variant, limits, sortedPlayers, now, isJoining,
                 selectedColor, zoneVars,
                 soundVars, remAtPause>>

(* the callback after a correct answer that does not yet win *)
TempleNextTimeout ==
  \E t \in timeouts :
    /\ t.kind = "templeNext" /\ t.due <= now
    /\ tPuzzleIndex' = tPuzzleIndex + 1
    /\ tShowResult' = FALSE
    /\ timeouts' = timeouts \ {t}
    /\ UNCHANGED <<variant, limits, sortedPlayers, tFailed, now, gameVars,
                   isJoining, selectedColor, mapGameEnded, timerVars, zoneVars, tCorrect,
                   tComplete, tStreak, soundVars, remAtPause>>

(* a callback after a wrong answer that shows the same puzzle again and keeps
   the count *)
TempleResetKeepsCount ==
  \E t \in timeouts :
    /\ t.kind = "templeReset" /\ t.due <= now
    /\ tShowResult' = FALSE
    /\ timeouts' = timeouts \ {t}
    /\ UNCHANGED <<variant, limits, sortedPlayers, tFailed, now, gameVars,
                   isJoining, selectedColor,
                   mapGameEnded, timerVars, zoneVars, tPuzzleIndex, tCorrect,
                   tComplete, tStreak, soundVars, remAtPause>>

(* the callback after a wrong answer: the gauntlet starts again *)
TempleResetTimeout ==
  \E t \in timeouts :
    /\ t.kind = "templeReset" /\ t.due <= now
    /\ tPuzzleIndex' = 0
    /\ tCorrect' = 0
    /\ tShowResult' = FALSE
    /\ timeouts' = timeouts \ {t}
    /\ UNCHANGED <<variant, limits, sortedPlayers, tFailed, now, gameVars,
                   isJoining, selectedColor, mapGameEnded, timerVars, zoneVars, tComplete,
                   tStreak, soundVars, remAtPause>>

(* the buttons of the temple page that return to the map *)
TempleBack ==
  /\ currentPage = "temple"
  /\ Navigate("map")

(* the victory view's button that opens the home page *)
VictoryHome ==
  /\ VictoryShown
  /\ Navigate("home")

----------------------------------------------------------------------------
(* PauseButton.handlePause (rich variant) *)

Pause ==
  /\ PauseButtonShown /\ ~isPaused
  /\ isPaused' = TRUE
  /\ pauseStartTime' = now
  /\ remAtPause' = IF gameMode = "playing" THEN Remaining ELSE Null
  /\ UNCHANGED <<currentPage, players, currentPlayer, gameWinner, winnerTime,
                 gameStartTime, gameMode>>
  /\ RenderMap
  /\ PageLocals(timeouts)
  /\ UNCHANGED <<variant, limits, sortedPlayers, tFailed, now, soundVars>>

Resume ==
  /\ PauseButtonShown /\ isPaused
  /\ LET pauseDuration == now - (IF pauseStartTime = Null THEN 0 ELSE pauseStartTime)
     IN gameStartTime' = gameStartTime + pauseDuration
  /\ isPaused' = FALSE
  /\ pauseStartTime' = Null
  /\ remAtPause' = Null
  /\ UNCHANGED <<currentPage, players, currentPlayer, gameWinner, winnerTime,
                 gameMode>>
  /\ RenderMap
  /\ PageLocals(timeouts)
  /\ UNCHANGED <<variant, limits, sortedPlayers, tFailed, now, soundVars>>

----------------------------------------------------------------------------
(* GameTimer: one firing of the interval *)

Tick ==
  /\ timerDue # Null /\ timerDue <= now
  /\ timerDue' = now + TickPeriod
  /\ IF variant = "rich" /\ isPaused
       THEN UNCHANGED <<hasWarned, warnCount, timeupCount>>
       ELSE LET remaining == Remaining
                warns == remaining <= WarnAt /\ remaining > WarnAt - TickPeriod
                           /\ ~hasWarned
                playing == gameMode = "playing"
            IN /\ hasWarned' = (hasWarned \/ warns)
               /\ warnCount' = IF warns /\ playing THEN warnCount + 1
                                ELSE warnCount
               /\ timeupCount' = IF remaining = 0 /\ playing THEN timeupCount + 1
                                  ELSE timeupCount
  /\ UNCHANGED <<variant, limits, sortedPlayers, tFailed, now, gameVars,
                 isJoining, selectedColor, mapGameEnded, totalPauseTime, zoneVars, templeVars,
                 timeouts, remAtPause>>

(* the clock; a callback that is due runs before the clock moves on *)
Advance ==
  /\ now < limits.horizon
  /\ timerDue = Null \/ timerDue > now
  /\ \A t \in timeouts : t.due > now
  /\ now' = now + 1
  /\ UNCHANGED <<variant, limits, sortedPlayers, tFailed, gameVars,
                 isJoining, selectedColor,
                 mapGameEnded, timerVars, zoneVars, templeVars, timeouts,
                 soundVars, remAtPause>>

----------------------------------------------------------------------------
Next ==
  \/ HomeStart \/ SetupBackHome \/ JoinGame \/ JoinTimeout \/ SetupStartGame
  \/ PickPlayer \/ PickerBack \/ SwitchPlayer \/ ViewLeaderboard \/ MapBackToSetup
  \/ EnterTemple \/ EnterZone \/ Restore
  \/ SelectAnswer \/ SubmitAnswer \/ DrawCard \/ ZoneBack \/ ToMapTimeout
  \/ TempleSubmit \/ TempleNextTimeout \/ TempleResetTimeout \/ TempleBack
  \/ VictoryHome
  \/ Pause \/ Resume
  \/ Tick \/ Advance

Spec == Init /\ [][Next]_vars

----------------------------------------------------------------------------
(* Sessions of MaxPlayers players that navigate, join and pause while the
   clock runs: the game clock without the economy. *)
ClockInit ==
  /\ limits = ClockLimits
  /\ Construction

ClockNext ==
  \/ HomeStart \/ SetupBackHome \/ JoinGame \/ JoinTimeout \/ SetupStartGame
  \/ PickPlayer \/ PickerBack \/ SwitchPlayer \/ ViewLeaderboard \/ MapBackToSetup
  \/ EnterZone \/ ZoneBack
  \/ Pause \/ Resume
  \/ Tick \/ Advance

SpecClock == ClockInit /\ [][ClockNext]_vars

----------------------------------------------------------------------------
(* Sessions that start where two players are ready for the temple: both have
   joined at time 0 and drawn poseidon_trident in the cave, the join callback
   has opened the lobby at JoinDelay, the second player has gone on to the
   map and the callbacks of the draws have run at ZoneReturnDelay.
   SpecSetup reaches this state from Construction. *)
TridentDraw(ps, id) ==
  AddLog(AddCard(UpdatePlayer(ps, id,
                   CardUpdates(ps[id], "cave", CARD_REWARDS["poseidon_trident"]), 0),
                 ps, id, "poseidon_trident", 0),
         ps, id, CardLog("cave", "poseidon_trident"), 0)

TempleStart ==
  /\ variant \in Variants
  /\ now = ZoneReturnDelay
  /\ currentPage = "map"
  /\ players = TridentDraw(TridentDraw((1 :> NewPlayer(0)) @@ (2 :> NewPlayer(0)), 1), 2)
  /\ currentPlayer = 2
  /\ gameWinner = NoPlayer /\ winnerTime = Null
  /\ gameStartTime = JoinDelay /\ gameMode = "playing"
  /\ isPaused = FALSE /\ pauseStartTime = Null
  /\ isJoining = FALSE /\ selectedColor = DefaultColor /\ mapGameEnded = FALSE
  /\ timerDue = ZoneReturnDelay + TickPeriod /\ hasWarned = FALSE
  /\ totalPauseTime = 0
  /\ zTaskType = "none" /\ zQuestion = NoQuestion
  /\ zSelected = NoAnswer /\ zShowResult = FALSE
  /\ zCardReward = NoCard /\ zRandom = Null
  /\ tPuzzleIndex = 0 /\ tCorrect = 0 /\ tShowResult = FALSE /\ tComplete = FALSE
  /\ tStreak = 0 /\ tFailed = {}
  /\ timeouts = {}
  /\ warnCount = 0 /\ timeupCount = 0
  /\ remAtPause = Null
  /\ sortedPlayers = << >>

TempleInit ==
  /\ limits = TempleLimits
  /\ TempleStart

TempleNext ==
  \/ HomeStart \/ SetupBackHome \/ JoinGame \/ JoinTimeout \/ SetupStartGame
  \/ PickPlayer \/ PickerBack \/ SwitchPlayer \/ ViewLeaderboard \/ MapBackToSetup
  \/ EnterTemple
  \/ TempleSubmit \/ TempleNextTimeout \/ TempleResetTimeout \/ TempleBack
  \/ VictoryHome
  \/ Pause \/ Resume
  \/ Tick \/ Advance

SpecTemple == TempleInit /\ [][TempleNext]_vars

(* the way from Construction to TempleStart *)
SetupInit ==
  /\ limits = TempleLimits
  /\ Construction

SetupNext ==
  \/ HomeStart \/ JoinGame \/ JoinTimeout \/ SetupStartGame \/ MapBackToSetup
  \/ EnterZone \/ DrawCard \/ ZoneBack \/ ToMapTimeout
  \/ Tick \/ Advance

SpecSetup == SetupInit /\ [][SetupNext]_vars
(* TLC refutes this invariant under SpecSetup: TempleStart is reachable *)
TempleStartUnreached == ~TempleStart

----------------------------------------------------------------------------
(* The leaderboard of the map page, for every standing of up to MaxRanked
   players: a winner has the time of the win and was updated then or later,
   the others have no winTime; the score follows from the coins. *)
RankTimes == 1 .. MaxRankTime
Standings ==
  { r \in [isWinner : BOOLEAN, winTime : RankTimes \cup {Null},
           totalScore : {2 * c : c \in 0..MaxRankCoins}, lastActive : RankTimes] :
      IF r.isWinner THEN r.winTime # Null /\ r.lastActive >= r.winTime
                    ELSE r.winTime = Null }
RankLimits ==
  [timeLimit |-> TimeLimit, horizon |-> MaxRankTime, players |-> MaxRanked,
   ops |-> MaxOps, chances |-> MaxActionChances,
   cards |-> ModelCards, draws |-> DrawValues, zones |-> PlayZones,
   colors |-> {}]

RankInit ==
  /\ limits = RankLimits
  /\ variant \in Variants
  /\ now = MaxRankTime
  /\ currentPage = "map"
  /\ \E n \in 1..MaxRanked : players \in [1..n -> Standings]
  /\ currentPlayer = 1
  /\ gameWinner = NoPlayer /\ winnerTime = Null
  /\ gameStartTime = 0 /\ gameMode = "playing"
  /\ isPaused = FALSE /\ pauseStartTime = Null
  /\ isJoining = FALSE /\ selectedColor = DefaultColor /\ mapGameEnded = FALSE
  /\ timerDue = Null /\ hasWarned = FALSE /\ totalPauseTime = 0
  /\ zTaskType = "none" /\ zQuestion = NoQuestion
  /\ zSelected = NoAnswer /\ zShowResult = FALSE
  /\ zCardReward = NoCard /\ zRandom = Null
  /\ tPuzzleIndex = 0 /\ tCorrect = 0 /\ tShowResult = FALSE /\ tComplete = FALSE
  /\ tStreak = 0 /\ tFailed = {}
  /\ timeouts = {}
  /\ warnCount = 0 /\ timeupCount = 0
  /\ remAtPause = Null
  /\ sortedPlayers = << >>

(* Leaderboard renders: useMemo computes sortedPlayers from gameState.players *)
RenderLeaderboard ==
  /\ OnMap
  /\ sortedPlayers' = SortedPlayers(players)
  /\ UNCHANGED <<variant, limits, tFailed, now, gameVars, isJoining,
                 selectedColor,
                 mapGameEnded, timerVars, zoneVars, templeVars, timeouts,
                 soundVars, remAtPause>>

RankNext == RenderLeaderboard

SpecRank == RankInit /\ [][RankNext]_vars

----------------------------------------------------------------------------
(* One more answer or draw in any zone, with every draw value and every card
   of the table, by a player who has drawn small_blessing in the cave at
   JoinDelay and gone back to the map: the rewards of the zone handlers.
   SpecRewardSetup reaches this state from Construction. *)
BlessingDraw(ps, id) ==
  AddLog(AddCard(UpdatePlayer(ps, id,
                   CardUpdates(ps[id], "cave", CARD_REWARDS["small_blessing"]),
                   JoinDelay),
                 ps, id, "small_blessing", JoinDelay),
         ps, id, CardLog("cave", "small_blessing"), JoinDelay)

RewardStart ==
  /\ variant \in Variants
  /\ now = JoinDelay
  /\ currentPage = "map"
  /\ players = BlessingDraw((1 :> NewPlayer(0)), 1)
  /\ currentPlayer = 1
  /\ gameWinner = NoPlayer /\ winnerTime = Null
  /\ gameStartTime = JoinDelay /\ gameMode = "playing"
  /\ isPaused = FALSE /\ pauseStartTime = Null
  /\ isJoining = FALSE /\ selectedColor = DefaultColor /\ mapGameEnded = FALSE
  /\ timerDue = JoinDelay + TickPeriod /\ hasWarned = FALSE
  /\ totalPauseTime = 0
  /\ zTaskType = "none" /\ zQuestion = NoQuestion
  /\ zSelected = NoAnswer /\ zShowResult = FALSE
  /\ zCardReward = NoCard /\ zRandom = Null
  /\ tPuzzleIndex = 0 /\ tCorrect = 0 /\ tShowResult = FALSE /\ tComplete = FALSE
  /\ tStreak = 0 /\ tFailed = {}
  /\ timeouts = {[kind |-> "toMap", due |-> JoinDelay + ZoneReturnDelay]}
  /\ warnCount = 0 /\ timeupCount = 0
  /\ remAtPause = Null
  /\ sortedPlayers = << >>

RewardInit ==
  /\ limits = RewardLimits
  /\ RewardStart

RewardNext ==
  \/ EnterZone \/ SelectAnswer \/ SubmitAnswer \/ DrawCard \/ ZoneBack

SpecReward == RewardInit /\ [][RewardNext]_vars

(* the way from Construction to RewardStart *)
RewardSetupInit ==
  /\ limits = RewardLimits
  /\ Construction

SpecRewardSetup == RewardSetupInit /\ [][SetupNext]_vars
(* TLC refutes this invariant under SpecRewardSetup: RewardStart is reachable *)
RewardStartUnreached == ~RewardStart

-----------------------------------------------------------------------------
(* Sessions of one player who has ZoneChances action chances and a countdown
   that does not run out: the zones, played until a question bank is used up.
   They start where the player has joined at time 0, the join callback has
   opened the lobby at JoinDelay and the player has gone on to the map.
   SpecZoneSetup reaches this state from Construction. *)
ZoneStart ==
  /\ variant \in Variants
  /\ now = JoinDelay
  /\ currentPage = "map"
  /\ players = (1 :> NewPlayer(0))
  /\ currentPlayer = 1
  /\ gameWinner = NoPlayer /\ winnerTime = Null
  /\ gameStartTime = JoinDelay /\ gameMode = "playing"
  /\ isPaused = FALSE /\ pauseStartTime = Null
  /\ isJoining = FALSE /\ selectedColor = DefaultColor /\ mapGameEnded = FALSE
  /\ timerDue = JoinDelay + TickPeriod /\ hasWarned = FALSE
  /\ totalPauseTime = 0
  /\ zTaskType = "none" /\ zQuestion = NoQuestion
  /\ zSelected = NoAnswer /\ zShowResult = FALSE
  /\ zCardReward = NoCard /\ zRandom = Null
  /\ tPuzzleIndex = 0 /\ tCorrect = 0 /\ tShowResult = FALSE /\ tComplete = FALSE
  /\ tStreak = 0 /\ tFailed = {}
  /\ timeouts = {}
  /\ warnCount = 0 /\ timeupCount = 0
  /\ remAtPause = Null
  /\ sortedPlayers = << >>

ZoneInit ==
  /\ limits = ZoneLimits
  /\ ZoneStart

ZoneNext ==
  \/ EnterZone
  \/ SelectAnswer \/ SubmitAnswer \/ DrawCard \/ ZoneBack \/ ToMapTimeout
  \/ Tick \/ Advance

SpecZone == ZoneInit /\ [][ZoneNext]_vars

(* the way from Construction to ZoneStart *)
ZoneSetupInit ==
  /\ limits = ZoneLimits
  /\ Construction

SpecZoneSetup == ZoneSetupInit /\ [][SetupNext]_vars
(* TLC refutes this invariant under SpecZoneSetup: ZoneStart is reachable *)
ZoneStartUnreached == ~ZoneStart

-----------------------------------------------------------------------------
(* The functions the provider hands to the pages, called with the ids of
   players and with ids that belong to no player, from the state in which one
   player is on the map (ZoneStart). *)
ApiIds == 1..ApiMaxIds
ApiUpdates ==
  { [coins |-> 1], [shells |-> 1], [coins |-> 2, shells |-> 1],
    [actionChances |-> 0], [completedZones |-> <<"coral">>] }
ApiEntries ==
  { [type |-> "restore", zone |-> "system", result |-> "success"],
    [type |-> "card", zone |-> "cave", result |-> "skip"] }

(* what a call leaves alone: everything but the players *)
ApiFrame ==
  /\ UNCHANGED <<currentPage, currentPlayer, gameWinner, winnerTime,
                 gameStartTime, gameMode, isPaused, pauseStartTime>>
  /\ RenderMap
  /\ PageLocals(timeouts)
  /\ UNCHANGED <<variant, limits, sortedPlayers, tFailed, now, soundVars,
                 remAtPause>>

CallUpdatePlayer ==
  /\ \E id \in ApiIds : \E updates \in ApiUpdates :
       players' = UpdatePlayer(players, id, updates, now)
  /\ ApiFrame

CallAddLog ==
  /\ \E id \in ApiIds : \E entry \in ApiEntries :
       /\ id \in DOMAIN players => Len(players[id].log) < limits.ops
       /\ players' = AddLog(players, players, id, entry, now)
  /\ ApiFrame

CallAddCard ==
  /\ \E id \in ApiIds : \E card \in limits.cards :
       /\ id \in DOMAIN players => Len(players[id].collectedCards) < limits.ops
       /\ players' = AddCard(players, players, id, card, now)
  /\ ApiFrame

ApiInit ==
  /\ limits = ApiLimits
  /\ ZoneStart

ApiNext == CallUpdatePlayer \/ CallAddLog \/ CallAddCard

SpecApi == ApiInit /\ [][ApiNext]_vars

----------------------------------------------------------------------------
(* Properties *)

(* C1: in both variants, in every reachable state and for every player,
   totalScore equals coins*2 + shells*5 + 10 times the number of completed
   zones. *)
ScoreMatchesResources ==
  \A id \in DOMAIN players :
    LET p == players[id]
    IN p.totalScore = p.coins * 2 + p.shells * 5 + Len(p.completedZones) * 10

(* a player of the rich variant who has drawn or answered and then won the
   temple, whose handlers all handed a totalScore of their own to updatePlayer *)
ScoredWinner ==
  \E id \in DOMAIN players :
    /\ variant = "rich"
    /\ players[id].isWinner
    /\ players[id].log # << >>
    /\ players[id].totalScore > 0

(* C2: once gameWinner and winnerTime are set, no later step (temple
   completion, join, navigation, pause or resume) changes either of them. *)
WinnerWrittenOnce ==
  [][gameWinner # NoPlayer =>
       (gameWinner' = gameWinner /\ winnerTime' = winnerTime)]_vars

(* the winner is set, another player has passed the temple after it, a third
   player has joined and the game is paused *)
WinnerKeptThroughSession ==
  /\ variant = "rich"
  /\ gameWinner # NoPlayer
  /\ \E id \in DOMAIN players : id # gameWinner /\ players[id].isWinner
  /\ Cardinality(DOMAIN players) = MaxPlayers + 1
  /\ isPaused

(* a temple submission that pays the rewards of the winning branch *)
TemplePassStep ==
  /\ OnTemple
  /\ currentPlayer' = currentPlayer
  /\ players'[currentPlayer].coins > players[currentPlayer].coins

(* C3: a player who passes the temple becomes isWinner with winTime set; that
   player becomes gameWinner if gameWinner was unset, and gameWinner keeps
   its value otherwise. *)
FirstPasserIsWinner ==
  [][TemplePassStep =>
       /\ players'[currentPlayer].isWinner
       /\ players'[currentPlayer].winTime = now
       /\ gameWinner' = IF gameWinner = NoPlayer THEN currentPlayer
                        ELSE gameWinner]_vars

(* A is gameWinner and B has passed the temple later *)
SecondWinnerAfterFirst ==
  \E a, b \in DOMAIN players :
    /\ a # b
    /\ variant = "rich"
    /\ gameWinner = a
    /\ players[a].isWinner /\ players[b].isWinner
    /\ players[b].winTime > players[a].winTime

(* a submitted correct answer in the rich variant *)
CorrectAnswerStep ==
  /\ variant = "rich"
  /\ QuestionFormShown
  /\ zSelected = QuestionAt(zoneId, zQuestion).answer
  /\ players'[currentPlayer].log # players[currentPlayer].log

(* C4: in the rich variant a correct answer raises totalScore by the flat
   difficulty bonus: 10 (easy), 15 (medium) or 20 (hard). *)
CorrectAnswerFlatBonus ==
  [][CorrectAnswerStep =>
       players'[currentPlayer].totalScore =
         players[currentPlayer].totalScore
           + DifficultyPick(QuestionAt(zoneId, zQuestion).difficulty, 10, 15, 20)]_vars

(* a card draw in the rich variant *)
CardDrawStep ==
  /\ variant = "rich"
  /\ CardFormShown
  /\ players'[currentPlayer].collectedCards # players[currentPlayer].collectedCards

(* C5: in the rich variant every card draw raises totalScore by a flat 15 on
   top of what the card's coins and shells are worth (and of the 10 points of
   a zone the draw completes). *)
CardDrawFlatBonus ==
  [][CardDrawStep =>
       LET p == players[currentPlayer]
           q == players'[currentPlayer]
           resources == (q.coins - p.coins) * 2 + (q.shells - p.shells) * 5
       IN q.totalScore - p.totalScore - resources \in {15, 25}]_vars

(* the countdown of a running game is at zero *)
Expired == gameMode = "playing" /\ Remaining = 0

(* C6: once the countdown has reached zero, no click on the map changes
   currentPage to a zone page or to the temple. *)
NoEntryAfterExpiry ==
  [][(Expired /\ currentPage = "map") =>
       currentPage' \notin (ZonePages \cup {"temple"})]_vars

(* C7: once the countdown has expired, no step changes any player's coins,
   shells, actionChances, progress or win status. *)
NoRewardAfterExpiry ==
  [][Expired =>
       \A id \in DOMAIN players :
         LET p == players[id]
             q == players'[id]
         IN /\ q.coins = p.coins /\ q.shells = p.shells
            /\ q.actionChances = p.actionChances
            /\ q.zoneProgress = p.zoneProgress
            /\ q.completedZones = p.completedZones
            /\ q.isWinner = p.isWinner /\ q.winTime = p.winTime]_vars

(* C8: in the rich variant the countdown computed right after a resume equals
   the countdown computed when the pause began. *)
PauseKeepsRemaining ==
  [][(isPaused /\ ~isPaused' /\ remAtPause # Null) =>
       Remaining' = remAtPause]_vars

(* C9: the timeup cue is emitted once in a session, not again on later
   ticks. *)
TimeupOnce == timeupCount <= 1

(* C10: the warning cue of the timer is emitted at most once in a session. *)
WarningOnce == warnCount <= 1

(* C11: in the rich variant, for every player and zone, answeredQuestions[zone]
   never holds the same question index twice, and a question the zone page
   presents to be answered is never one of the current player's
   answeredQuestions of that zone. *)
NoQuestionTwice ==
  variant = "rich" =>
    /\ \A id \in DOMAIN players : \A z \in ZoneIds :
         LET answered == players[id].answeredQuestions[z]
         IN \A i, j \in 1..Len(answered) : answered[i] = answered[j] => i = j
    /\ (OnZone /\ ~zShowResult /\ zQuestion # NoQuestion) =>
         ~Includes(players[currentPlayer].answeredQuestions[zoneId], zQuestion)

(* the player has answered two questions of the reef, has come back and is
   shown the third *)
ThirdQuestionShown ==
  /\ variant = "rich"
  /\ currentPage = ZonePageOf("coral") /\ currentPlayer \in DOMAIN players
  /\ Len(players[currentPlayer].answeredQuestions["coral"]) = 2
  /\ ~zShowResult /\ zQuestion # NoQuestion

Sign(x) == IF x < 0 THEN -1 ELSE IF x > 0 THEN 1 ELSE 0

(* C12: in both variants the leaderboard comparator is a consistent order:
   for any players A and B, compare(A, B) and compare(B, A) have opposite
   signs or are both zero, and for any A, B and C, A before B and B before C
   imply A before C (and likewise for "not after"). *)
ComparatorConsistent ==
  \A a, b, c \in DOMAIN players :
    LET A == players[a]
        B == players[b]
        C == players[c]
    IN /\ Sign(Compare(A, B)) = 0 - Sign(Compare(B, A))
       /\ (Compare(A, B) < 0 /\ Compare(B, C) < 0) => Compare(A, C) < 0
       /\ (Compare(A, B) <= 0 /\ Compare(B, C) <= 0) => Compare(A, C) <= 0

(* the sort has used the comparator on three players, two of whom it cannot
   tell apart, and has moved the last to join to the top *)
ThreeRanked ==
  /\ Len(sortedPlayers) = 3
  /\ sortedPlayers[1] = 3
  /\ Compare(players[3], players[1]) < 0
  /\ Compare(players[1], players[2]) = 0

(* C13: in the rich variant the leaderboard lists the players it shows so that
   every winner comes before every player who has not won; winners by
   ascending winTime and, at equal winTime, by descending totalScore; the
   others by descending totalScore and, at equal totalScore, by ascending
   lastActive. *)
LeaderboardOrdered ==
  (variant = "rich" /\ sortedPlayers # << >>) =>
    /\ Len(sortedPlayers) = Min(Cardinality(DOMAIN players), BoardSize)
    /\ \A i, j \in 1..Len(sortedPlayers) :
         /\ sortedPlayers[i] \in DOMAIN players
         /\ i # j => sortedPlayers[i] # sortedPlayers[j]
         /\ i < j =>
              LET a == players[sortedPlayers[i]]
                  b == players[sortedPlayers[j]]
              IN /\ b.isWinner => a.isWinner
                 /\ (a.isWinner /\ b.isWinner) =>
                      /\ a.winTime <= b.winTime
                      /\ a.winTime = b.winTime => a.totalScore >= b.totalScore
                 /\ (~a.isWinner /\ ~b.isWinner) =>
                      /\ a.totalScore >= b.totalScore
                      /\ a.totalScore = b.totalScore => a.lastActive <= b.lastActive

(* a rich leaderboard of two winners of the same winTime and different
   scores and a third player, sorted into another order than they joined in *)
TiedWinnersRanked ==
  /\ variant = "rich"
  /\ Len(sortedPlayers) = 3
  /\ sortedPlayers # << 1, 2, 3 >>
  /\ \E a, b \in DOMAIN players :
       /\ players[a].isWinner /\ players[b].isWinner
       /\ players[a].winTime = players[b].winTime
       /\ players[a].totalScore # players[b].totalScore
  /\ \E c \in DOMAIN players : ~players[c].isWinner

(* C14: in the rich variant currentPage changes from the map to a zone page
   only when the current player has actionChances > 0 and has not won, the
   game is not paused and the countdown has not expired. *)
ZoneEntryGated ==
  [][(variant = "rich" /\ currentPage = "map" /\ currentPage' \in ZonePages) =>
       /\ currentPlayer \in DOMAIN players
       /\ players[currentPlayer].actionChances > 0
       /\ ~players[currentPlayer].isWinner
       /\ ~isPaused
       /\ ~Expired]_vars

(* C15: in every state in which currentPage is the temple, the current player
   has at least the threshold of coins and the threshold of shells; the
   temple is entered on the player's current counts. *)
TempleOnlyWhenQualified ==
  currentPage = "temple" =>
    /\ currentPlayer \in DOMAIN players
    /\ players[currentPlayer].coins >= TempleCoins
    /\ players[currentPlayer].shells >= TempleShells

(* a player is in the temple while another player of the session is short of
   coins or shells *)
InTempleBesidePoorPlayer ==
  /\ currentPage = "temple"
  /\ \E id \in DOMAIN players :
       players[id].coins < TempleCoins \/ players[id].shells < TempleShells

(* C16: in the rich variant a player becomes a winner only by the third of
   three correct temple answers in a row within one visit of the temple, and
   a wrong answer sets the puzzle index and the count of correct answers back
   to zero before the next answer can be submitted: whenever an answer can be
   submitted, both equal the number of correct answers given in a row. *)
WinNeedsThreeInARow ==
  [][variant = "rich" =>
       /\ \A id \in DOMAIN players :
            (~players[id].isWinner /\ players'[id].isWinner) =>
              /\ id = currentPlayer /\ currentPage = "temple"
              /\ tStreak' = 3
       /\ TempleFormShown' => (tCorrect' = tStreak' /\ tPuzzleIndex' = tStreak')]_vars

(* a rich player who gave a wrong temple answer, started again and has won by
   three correct answers in a row before the countdown ran out *)
WonAfterRestart ==
  /\ variant = "rich"
  /\ currentPage = "temple" /\ currentPlayer \in tFailed
  /\ players[currentPlayer].isWinner
  /\ tStreak = 3
  /\ ~Expired

(* a temple answer is submitted *)
TempleSubmitStep ==
  currentPage = "temple" /\ currentPage' = "temple" /\ ~tShowResult /\ tShowResult'

(* C17: in the simple variant a player who has submitted a wrong temple answer
   submits no temple answer again. *)
OneTempleAttempt ==
  [][(variant = "simple" /\ TempleSubmitStep) => currentPlayer \notin tFailed]_vars

(* an answer to a zone question is submitted *)
AnswerStep ==
  /\ QuestionFormShown
  /\ Len(players'[currentPlayer].log) = Len(players[currentPlayer].log) + 1
  /\ players'[currentPlayer].log[Len(players'[currentPlayer].log)].type = "question"

(* C18: in both variants every submitted answer to a zone question, correct
   or wrong, lowers the answering player's actionChances by exactly one. *)
AnswerCostsOneChance ==
  [][AnswerStep =>
       players'[currentPlayer].actionChances =
         players[currentPlayer].actionChances - 1]_vars

(* a player of the simple variant who has answered twice, once wrongly, and
   has two action chances less *)
TwoAnswersTwoChances ==
  \E id \in DOMAIN players :
    /\ variant = "simple"
    /\ Len(players[id].log) = 2
    /\ \A i \in 1..2 : players[id].log[i].type = "question"
    /\ Len(players[id].completedZones) = 1
    /\ players[id].coins = 1
    /\ players[id].actionChances = ZoneChances - 2

(* a wrong answer to a zone question is submitted in the rich variant *)
WrongAnswerStep ==
  /\ variant = "rich"
  /\ AnswerStep
  /\ zSelected # QuestionAt(zoneId, zQuestion).answer

(* C19: in the rich variant a wrong answer leaves the player's coins, shells,
   zoneProgress and completedZones unchanged and appends the question's index
   to answeredQuestions of the zone (and to no other zone's). *)
WrongAnswerRecordedUnrewarded ==
  [][WrongAnswerStep =>
       LET p == players[currentPlayer]
           q == players'[currentPlayer]
       IN /\ q.coins = p.coins /\ q.shells = p.shells
          /\ q.zoneProgress = p.zoneProgress
          /\ q.completedZones = p.completedZones
          /\ q.answeredQuestions =
               [p.answeredQuestions EXCEPT
                  ![zoneId] = Append(p.answeredQuestions[zoneId], zQuestion)]]_vars

(* a rich player whose first answer, in the reef, was wrong: the question is
   recorded and nothing is gained *)
WrongAnswerOnRecord ==
  \E id \in DOMAIN players :
    /\ variant = "rich"
    /\ Len(players[id].log) = 1 /\ players[id].log[1].type = "question"
    /\ Len(players[id].answeredQuestions["coral"]) = 1
    /\ players[id].zoneProgress["coral"] = 0
    /\ players[id].shells = 0

IsPrefix(s, t) == Len(s) <= Len(t) /\ SubSeq(t, 1, Len(s)) = s

(* C20: in both variants completedZones of every player only grows and holds
   no zone twice: a step keeps the zones a player has completed, in order,
   and a correct answer or a draw in a zone that is already completed leaves
   the list as it is, the correct answer still being rewarded; the list never
   holds more than the five zones. *)
CompletedZonesGrowOnce ==
  [][\A id \in DOMAIN players :
       /\ id \in DOMAIN players'
       /\ LET before == players[id].completedZones
              after == players'[id].completedZones
          IN /\ IsPrefix(before, after)
             /\ \A i, j \in 1..Len(after) : after[i] = after[j] => i = j
             /\ Len(after) <= Cardinality(ZoneIds)
             /\ (id = currentPlayer /\ OnZone /\ Includes(before, zoneId)) =>
                  /\ after = before
                  /\ (AnswerStep /\ zSelected = QuestionAt(zoneId, zQuestion).answer) =>
                       players'[id].coins + players'[id].shells
                         > players[id].coins + players[id].shells]_vars

(* a player who has completed the reef and the cave and has acted three times:
   one of the three was an answer or a draw in a zone completed before *)
ActedInCompletedZone ==
  \E id \in DOMAIN players :
    /\ Len(players[id].completedZones) = 2
    /\ Len(players[id].log) = 3

----------------------------------------------------------------------------
(* The cards *)

(* a card draw: the card form is shown and the step adds a card entry to the
   log of the current player *)
DrawStep ==
  /\ CardFormShown
  /\ Len(players'[currentPlayer].log) = Len(players[currentPlayer].log) + 1
  /\ players'[currentPlayer].log[Len(players'[currentPlayer].log)].type = "card"

(* C21: what a drawn card does follows from its type: a coins card adds its
   amount to coins and leaves shells, a shells card adds its amount to shells
   and leaves coins, a bonus card adds its amount to both, an action card
   leaves both and makes actionChances the chances before the draw plus its
   amount, above the maximum if that is where the sum lies, and a skip card
   leaves coins and shells as they are. *)
CardEffectByType ==
  [][DrawStep =>
       LET p == players[currentPlayer]
           q == players'[currentPlayer]
           card == CARD_REWARDS[zCardReward']
           dCoins == q.coins - p.coins
           dShells == q.shells - p.shells
       IN /\ card.type \in {"coins", "shells", "bonus", "action", "skip"}
          /\ card.type = "coins"  => dCoins = card.amount /\ dShells = 0
          /\ card.type = "shells" => dCoins = 0 /\ dShells = card.amount
          /\ card.type = "bonus"  => dCoins = card.amount /\ dShells = card.amount
          /\ card.type = "action" =>
               /\ dCoins = 0 /\ dShells = 0
               /\ q.actionChances = p.actionChances + card.amount
          /\ card.type = "skip"   => dCoins = 0 /\ dShells = 0]_vars

(* leviathan_scale has been drawn by a player with two chances left: the
   player has seven, two more than the five a player starts with in the game *)
ActionCardAboveMaximum ==
  /\ zCardReward = "leviathan_scale"
  /\ currentPlayer \in DOMAIN players
  /\ players[currentPlayer].actionChances = 7
  /\ players[currentPlayer].actionChances > limits.chances

(* C22: collectedCards of every player is append-only: a draw makes it the
   list before the draw followed by the one card that was drawn, whether or
   not the list holds that card already, and every other step leaves it as it
   is; the updates of the player and of the log made by the same draw
   included, no step changes or removes an entry. *)
CollectedCardsAppendOnly ==
  [][\A id \in DOMAIN players :
       /\ id \in DOMAIN players'
       /\ LET before == players[id].collectedCards
              after == players'[id].collectedCards
          IN /\ IsPrefix(before, after)
             /\ IF id = currentPlayer /\ DrawStep
                  THEN /\ zCardReward' \in CardIds
                       /\ after = Append(before, zCardReward')
                  ELSE after = before]_vars

(* the same card drawn twice and an answer given after the two draws *)
SameCardTwiceThenAnswer ==
  \E id \in DOMAIN players :
    LET cards == players[id].collectedCards
        log == players[id].log
    IN /\ Len(cards) = 2 /\ cards[1] = cards[2]
       /\ Len(log) = 3 /\ log[3].type = "question"

(* the cells of the draw space, which together have its whole length, and
   those of them that the selection loop maps to a rarity *)
Cells == {random \in DrawSpace : IsCell(random)}
CellsOf(r) == {random \in Cells : SelectRarity(random) = r}
DeclaredShare == [common |-> 50, rare |-> 30, epic |-> 15, legendary |-> 5]

(* C23: each rarity receives exactly its declared share of the draw space
   [0, 100): the draw values mapped to common, rare, epic and legendary make
   up 50, 30, 15 and 5 hundredths of the length of the space, and the value
   of a draw that was made lies in the part of the rarity of the card it
   gave; the frequencies of the rarities are what these shares make them. *)
RarityShareExact ==
  /\ \A r \in DOMAIN DeclaredShare :
       Cardinality(CellsOf(r)) * 100 = DeclaredShare[r] * Cardinality(Cells)
  /\ (zCardReward # NoCard /\ IsCell(zRandom)) =>
       zRandom \in CellsOf(CARD_REWARDS[zCardReward].rarity)

(* the last cell of the draw space has given a legendary card *)
LegendaryFromLastCell ==
  /\ zRandom = 2 * TotalWeight * DrawRes - 1
  /\ zCardReward = "atlantis_coin"

(* the callback of a zone page fires on a page that is no zone page, or the
   callback of a join fires on a page that is not the setup page *)
StaleCallbackFires ==
  \E t \in timeouts :
    /\ t \notin timeouts'
    /\ \/ t.kind = "toMap" /\ currentPage \notin ZonePages
       \/ t.kind = "join" /\ currentPage # "setup"

(* C24: a callback that fires after the user has left the page that set it
   is a no-op: the return to the map set by an answer or a draw and the move
   to the lobby set by a join change neither currentPage nor anything else of
   the session when they fire on a different page. *)
StaleCallbackNoOp ==
  [][StaleCallbackFires => UNCHANGED <<currentPage, gameVars>>]_vars

(* C25: in the rich variant nothing is accepted while the game is paused: no
   answer, draw, restore or temple submission changes the record of a player
   and no click opens a zone or the temple, until the game is resumed. *)
PausedAcceptsNothing ==
  [][(variant = "rich" /\ isPaused) =>
       /\ \A id \in DOMAIN players :
            id \in DOMAIN players' /\ players'[id] = players[id]
       /\ currentPage' \in (ZonePages \cup {"temple"}) =>
            currentPage' = currentPage]_vars

(* what the action cards of a collection have added to actionChances *)
RECURSIVE ActionGain(_)
ActionGain(cards) ==
  IF cards = << >> THEN 0
  ELSE (IF CARD_REWARDS[Head(cards)].type = "action"
          THEN CARD_REWARDS[Head(cards)].amount ELSE 0)
       + ActionGain(Tail(cards))

(* C26 as the spec words it: actionChances of every player is an integer
   from 0 to maxActionChances. *)
ActionChancesWithinMax ==
  \A id \in DOMAIN players :
    players[id].actionChances \in 0..limits.chances

(* C26: actionChances of every player is an integer that is not negative and
   that is above maxActionChances by no more than the action cards the player
   has drawn have added; a player who has drawn no action card has at most
   maxActionChances. *)
ActionChancesBounded ==
  \A id \in DOMAIN players :
    /\ players[id].actionChances \in Nat
    /\ players[id].actionChances
         <= limits.chances + ActionGain(players[id].collectedCards)

(* a player whom an action card has taken above maxActionChances *)
AboveMaxByActionCard ==
  \E id \in DOMAIN players :
    /\ players[id].actionChances > limits.chances
    /\ ActionGain(players[id].collectedCards) > 0

----------------------------------------------------------------------------
(* The provider *)

(* C27: updatePlayer, addLog and addCard called with an id that belongs to no
   player leave the game state as it is and raise no error: each returns the
   players it was given, and no call has made a record for such an id. *)
UnknownIdIgnored ==
  /\ DOMAIN players \subseteq ApiIds
  /\ \A id \in ApiIds \ DOMAIN players :
       /\ \A updates \in ApiUpdates :
            UpdatePlayer(players, id, updates, now) = players
       /\ \A entry \in ApiEntries :
            AddLog(players, players, id, entry, now) = players
       /\ \A card \in limits.cards :
            AddCard(players, players, id, card, now) = players
  /\ Cardinality(DOMAIN players) = 1

(* the three functions have changed the record of the player they know, and
   two of the ids they are called with belong to no player *)
KnownIdServed ==
  /\ Cardinality(ApiIds \ DOMAIN players) = 2
  /\ \E id \in DOMAIN players :
       /\ players[id].coins = 2
       /\ Len(players[id].log) = 2
       /\ Len(players[id].collectedCards) = 2

----------------------------------------------------------------------------
(* Zone completion and rewards *)

(* the entries of a log that record a correct answer in zone z, and those
   that record a draw there *)
CorrectIn(log, z) ==
  {i \in 1..Len(log) :
     log[i].type = "question" /\ log[i].zone = z /\ log[i].result = "success"}
DrawsIn(log, z) ==
  {i \in 1..Len(log) : log[i].type = "card" /\ log[i].zone = z}

(* C28: in the rich variant zoneProgress of a question zone is the number of
   correct answers the player's log records in the zone, and the zone is in
   completedZones exactly if that number is at least 3; a card zone is in
   completedZones exactly if the log records a draw there. *)
CompletionMatchesProgress ==
  variant = "rich" =>
    \A id \in DOMAIN players :
      LET p == players[id]
      IN /\ \A z \in QuestionZones :
              /\ p.zoneProgress[z] = Cardinality(CorrectIn(p.log, z))
              /\ Includes(p.completedZones, z) <=> p.zoneProgress[z] >= 3
         /\ \A z \in CardZones :
              Includes(p.completedZones, z) <=> DrawsIn(p.log, z) # {}

(* three correct answers on the reef have completed it *)
ReefCompletedByThree ==
  /\ variant = "rich"
  /\ \E id \in DOMAIN players :
       /\ Includes(players[id].completedZones, "coral")
       /\ players[id].zoneProgress["coral"] = 3

(* a correct answer in the rich variant *)
RichCorrectStep ==
  /\ variant = "rich"
  /\ AnswerStep
  /\ zSelected = QuestionAt(zoneId, zQuestion).answer

(* C29: in the rich variant a correct answer pays by zone and difficulty: on
   the reef 1, 2 or 3 shells for an easy, medium or hard question and no
   coins; at the volcano and in the kelp 2, 3 or 4 coins and no shells. *)
CorrectAnswerPay ==
  [][RichCorrectStep =>
       LET p == players[currentPlayer]
           q == players'[currentPlayer]
           d == QuestionAt(zoneId, zQuestion).difficulty
           dCoins == q.coins - p.coins
           dShells == q.shells - p.shells
       IN /\ d \in {"easy", "medium", "hard"}
          /\ zoneId \in QuestionZones
          /\ zoneId = "coral" =>
               /\ dCoins = 0
               /\ dShells = (CASE d = "easy" -> 1 [] d = "medium" -> 2 [] d = "hard" -> 3)
          /\ zoneId \in {"volcano", "kelp"} =>
               /\ dShells = 0
               /\ dCoins = (CASE d = "easy" -> 2 [] d = "medium" -> 3 [] d = "hard" -> 4)]_vars

(* the hard question of the kelp answered correctly by the player who held
   one coin and one shell: five coins, one shell *)
HardKelpPaid ==
  /\ variant = "rich"
  /\ currentPage = "zone-kelp" /\ zShowResult
  /\ currentPlayer \in DOMAIN players
  /\ players[currentPlayer].coins = 5
  /\ players[currentPlayer].shells = 1

----------------------------------------------------------------------------
(* Rarity selection *)

(* the rarities in the order of the walk with their cumulative weights, and
   whether a draw value is at or below a cumulative weight *)
WalkOrder == << "common", "rare", "epic", "legendary" >>
CumulativeWeight == << 50, 80, 95, 100 >>
AtOrBelow(random, weight) == random <= 2 * weight * DrawRes
FirstReached(random) ==
  CHOOSE i \in 1..Len(WalkOrder) :
    /\ AtOrBelow(random, CumulativeWeight[i])
    /\ \A j \in 1..(i - 1) : ~AtOrBelow(random, CumulativeWeight[j])

(* C30: the rarity of a draw is found by walking common, rare, epic,
   legendary: for every draw value of [0, 100) some cumulative weight of 50,
   80, 95, 100 is at or above it and the rarity selected is the first of
   which this is true; every rarity has a template, and the card a draw gave
   is a template of the rarity selected for its draw value. *)
RarityIsInverseCdf ==
  /\ \A random \in limits.draws :
       /\ \E i \in 1..Len(WalkOrder) : AtOrBelow(random, CumulativeWeight[i])
       /\ SelectRarity(random) = WalkOrder[FirstReached(random)]
  /\ \A i \in 1..Len(WalkOrder) :
       \E c \in DOMAIN CARD_REWARDS : CARD_REWARDS[c].rarity = WalkOrder[i]
  /\ zCardReward # NoCard =>
       /\ zRandom \in limits.draws
       /\ zCardReward \in DOMAIN CARD_REWARDS
       /\ CARD_REWARDS[zCardReward].rarity = WalkOrder[FirstReached(zRandom)]

(* the draw value 50, where the first cumulative weight is reached exactly,
   has given a common card *)
CommonAtFifty ==
  /\ zRandom = 2 * 50 * DrawRes
  /\ zCardReward # NoCard
  /\ CARD_REWARDS[zCardReward].rarity = "common"

----------------------------------------------------------------------------
(* Sessions in which JoinMaxPlayers players join, on the setup page and in
   the lobby, with the colour the page starts with or after a click on a
   colour button. *)
JoinInit ==
  /\ limits = JoinLimits
  /\ Construction

JoinNext ==
  \/ HomeStart \/ SelectColor \/ JoinGame \/ JoinTimeout
  \/ SetupStartGame \/ MapBackToSetup
  \/ Tick \/ Advance

SpecJoin == JoinInit /\ [][JoinNext]_vars

(* C31: no sequence of joins takes a team above its capacity: in the rich
   variant no colour has more than 3 players, in the simple variant no two
   players have the same colour. *)
TeamCapacityKept ==
  \A c \in PLAYER_COLORS[variant] :
    LET team == {id \in DOMAIN players : players[id].color = c}
    IN IF variant = "rich" THEN Cardinality(team) <= 3
                           ELSE Cardinality(team) <= 1

----------------------------------------------------------------------------
(* The phases of a session *)

(* C32: gameMode goes from setup to playing to finished: the callback of a
   join makes it playing, the timer that finds the countdown at zero makes it
   finished, and it never goes back from playing to setup or from finished to
   an earlier phase. *)
GameModePhases ==
  [][/\ gameMode = "setup" => gameMode' \in {"setup", "playing"}
     /\ gameMode = "playing" => gameMode' \in {"playing", "finished"}
     /\ gameMode = "finished" => gameMode' = "finished"
     /\ (\E t \in timeouts : t.kind = "join" /\ t \notin timeouts') =>
          gameMode' = "playing"
     /\ timeupCount' # timeupCount => gameMode' = "finished"]_vars

----------------------------------------------------------------------------
(* Action chances *)

(* an answer or a draw is applied: the log of the current player gets a
   question or card entry *)
ZoneActStep ==
  /\ OnZone
  /\ currentPlayer' = currentPlayer
  /\ Len(players'[currentPlayer].log) = Len(players[currentPlayer].log) + 1
  /\ players'[currentPlayer].log[Len(players'[currentPlayer].log)].type
       \in {"question", "card"}

(* C33: actionChances of no player is ever negative: an answer or a draw is
   applied only for a player who has an action chance left, it is applied
   while no result is shown and shows one, and a result that is shown stays
   until the page is left, so that a visit of a zone takes one answer or draw
   at most; this under every interleaving of navigation, player switching,
   restore and callbacks. *)
ChancesNeverNegative ==
  [][/\ \A id \in DOMAIN players' : players'[id].actionChances >= 0
     /\ ZoneActStep =>
          /\ players[currentPlayer].actionChances > 0
          /\ ~zShowResult /\ zShowResult'
     /\ (zShowResult /\ currentPage' = currentPage) =>
          /\ zShowResult'
          /\ ~ZoneActStep]_vars

(* a player who has used the last action chance sees the result of it *)
LastChanceUsed ==
  /\ OnZone /\ zShowResult
  /\ players[currentPlayer].actionChances = 0
  /\ players[currentPlayer].log # << >>
  /\ Cardinality(DOMAIN players) = MaxPlayers

----------------------------------------------------------------------------
(* The price of a draw *)

(* C34: every draw costs one action chance besides what the card does: after
   a draw of a card of type t and amount n the player's actionChances is the
   value before the draw minus 1, plus n when t is action and plus 0 for
   every other type. *)
DrawCostsOneChance ==
  [][DrawStep =>
       LET p == players[currentPlayer]
           q == players'[currentPlayer]
           card == CARD_REWARDS[zCardReward']
       IN q.actionChances =
            p.actionChances - 1 + (IF card.type = "action" THEN card.amount ELSE 0)]_vars

----------------------------------------------------------------------------
(* Coins and shells *)

(* C35: coins and shells of every player are natural numbers and no step
   lowers them: every player stays, with coins and shells at least what they
   were, so that a player who satisfies the thresholds of the temple
   satisfies them after every step. *)
ResourcesNeverDecrease ==
  [][\A id \in DOMAIN players :
       /\ id \in DOMAIN players'
       /\ players[id].coins \in Nat /\ players[id].shells \in Nat
       /\ players'[id].coins >= players[id].coins
       /\ players'[id].shells >= players[id].shells
       /\ canEnterTemple(players[id]) => canEnterTemple(players'[id])]_vars

(* a player has passed the temple and holds the reward of it on top of the
   thresholds, while another player holds less than the thresholds *)
WinnerKeepsResources ==
  \E id, other \in DOMAIN players :
    /\ players[id].isWinner
    /\ players[id].coins > TempleCoins
    /\ players[id].shells > TempleShells
    /\ ~canEnterTemple(players[other])

----------------------------------------------------------------------------
(* The winner of the session *)

(* the players who have passed the temple *)
Winners == {id \in DOMAIN players : players[id].isWinner}

(* C36: whenever gameWinner is not null it is the id of a player, that player
   has isWinner, and the player's winTime is the smallest of the winTimes of
   the players with isWinner, so that the comparator of the leaderboard puts
   no other player before the winner of the session; the winTime of a player
   is set once and never changes after, and isWinner never returns to
   false. *)
GameWinnerIsEarliest ==
  [][/\ gameWinner' # NoPlayer =>
          /\ gameWinner' \in DOMAIN players'
          /\ players'[gameWinner'].isWinner
          /\ \A id \in DOMAIN players' :
               /\ players'[id].isWinner =>
                    players'[gameWinner'].winTime <= players'[id].winTime
               /\ (variant = "rich" /\ id # gameWinner') =>
                    Compare(players'[gameWinner'], players'[id]) < 0
     /\ \A id \in Winners :
          /\ players'[id].isWinner
          /\ players'[id].winTime = players[id].winTime]_vars

(* two players have passed the temple, the winner of the session before the
   other *)
TwoWinnersInOrder ==
  /\ Cardinality(Winners) = 2
  /\ gameWinner \in Winners
  /\ \E id \in Winners : players[id].winTime > players[gameWinner].winTime

----------------------------------------------------------------------------
(* The time of the winner *)

(* C37: in every state after the first win winnerTime is the winTime of the
   winner of the session minus gameStartTime, and it is not negative; pauses
   that are resumed after the win and players who join after the win
   included. *)
WinnerTimeMatchesClock ==
  gameWinner # NoPlayer =>
    /\ gameWinner \in DOMAIN players
    /\ winnerTime = players[gameWinner].winTime - gameStartTime
    /\ winnerTime >= 0
    /\ players[gameWinner].winTime - gameStartTime >= 0

----------------------------------------------------------------------------
(* The countdown of a running game *)

(* C38: while the game is running and not paused no step makes the remaining
   countdown larger, and a countdown that has reached zero stays at zero in
   every later state of the session, whatever players join, pages are visited
   and pauses are made: a player who joins a game that has started does not
   start the clock again. *)
CountdownNeverRestarts ==
  [][gameMode = "playing" =>
       /\ (~isPaused /\ ~isPaused') => Remaining' <= Remaining
       /\ Remaining = 0 => Remaining' = 0]_vars

----------------------------------------------------------------------------
(* A question bank that is used up *)

(* Sessions of one player in the reef, with one action chance more than the
   reef has questions: the bank is used up and the zone is entered again.
   They start at ZoneStart. *)
ExhaustLimits ==
  [timeLimit |-> ZoneTimeLimit, horizon |-> ExhaustMaxTime, players |-> 1,
   ops |-> ExhaustOps, chances |-> ExhaustChances,
   cards |-> ZoneCards, draws |-> {0}, zones |-> {"coral"},
   colors |-> {}]

ExhaustInit ==
  /\ limits = ExhaustLimits
  /\ ZoneStart

ExhaustNext ==
  \/ EnterZone
  \/ SelectAnswer \/ SubmitAnswer \/ ZoneBack \/ ToMapTimeout
  \/ Tick \/ Advance

SpecExhaust == ExhaustInit /\ [][ExhaustNext]_vars

(* player p has answered every question of zone z *)
BankUsedUp(p, z) ==
  \A i \in QuestionIndices(z) : Includes(p.answeredQuestions[z], i)

(* C39: in the rich variant answeredQuestions is never reset: every step keeps
   the answered questions of every player and zone and at most adds to them,
   and once a player has answered every question of a question zone, the page
   of that zone shows that player no question to answer and no step changes
   the player's zoneProgress of the zone or whether the zone is one of the
   player's completedZones. *)
UsedUpBankStaysClosed ==
  [][variant = "rich" =>
       \A id \in DOMAIN players : \A z \in QuestionZones :
         LET p == players[id]
             q == players'[id]
             n == Len(p.answeredQuestions[z])
         IN /\ Len(q.answeredQuestions[z]) >= n
            /\ SubSeq(q.answeredQuestions[z], 1, n) = p.answeredQuestions[z]
            /\ BankUsedUp(p, z) =>
                 /\ q.zoneProgress[z] = p.zoneProgress[z]
                 /\ Includes(q.completedZones, z) = Includes(p.completedZones, z)
                 /\ q.answeredQuestions[z] = p.answeredQuestions[z]
                 /\ (currentPlayer = id /\ currentPage = ZonePageOf(z)) =>
                      ~QuestionFormShown
                 /\ (currentPlayer' = id /\ currentPage' = ZonePageOf(z)) =>
                      ~QuestionFormShown']_vars

(* the reef has been entered again after its last question was answered, two
   of the three answers were right, and the page shows no question *)
UsedUpReefEntered ==
  /\ variant = "rich"
  /\ currentPage = ZonePageOf("coral") /\ currentPlayer \in DOMAIN players
  /\ BankUsedUp(players[currentPlayer], "coral")
  /\ players[currentPlayer].zoneProgress["coral"] = 2
  /\ ~Includes(players[currentPlayer].completedZones, "coral")
  /\ players[currentPlayer].actionChances > 0
  /\ ~zShowResult /\ zQuestion = NoQuestion

====
